---- MODULE Spec2Model ----
(***************************************************************************)
(* Model of src/common.c of sysrepo: the subscription registry of one      *)
(* sr_subscription_ctx_t (configuration, data-provide, RPC/action and      *)
(* notification subscriptions), the shared-memory segments behind it, and  *)
(* the reader/writer lock sr_rwlock/sr_rwunlock.                           *)
(*                                                                         *)
(* Memory is modelled far enough to follow the code through its error      *)
(* paths: an array pointer is "null", "live" or "freed" (dangling), and a  *)
(* freed object keeps its last contents.  An access to freed memory is     *)
(* undefined behaviour; its outcomes in the model are a crash (proc =      *)
(* "segv") or the access going through on the stale contents.  An assert   *)
(* is evaluated as the source has it: a failed one stops the process.      *)
(***************************************************************************)
EXTENDS Integers, Sequences, FiniteSets, TLC

\* Bound: number of entries the handle may hold over all four kinds.
MaxSubs == 2

\* Bound: number of threads that use the rwlock.
NThreads == 2

\* Bound: value of rwlock->readers above which no further read lock is asked for.
MaxReaders == 3

\* Bound: largest file size and requested size of the calls of sr_shm_remap.
MaxSize == 2

\* Bound: length of the strings that sr_str_hash is called with on its own.
MaxLen == 2

\* Bound: number of entries of the configuration group that events are
\* delivered to.
MaxPrioSubs == 3

\* Bound: largest tv_sec of the times sr_time_get is called at.
MaxSec == 1

\* Bound: number of calls of nanosleep of one sr_msleep that fail.
MaxTries == 2

NULL == "NULL"

\* uint32_t arithmetic (the counters of sr_subscription_ctx_t are uint32_t).
\* A uint32_t is kept as the 32-bit signed integer with the same bits, so
\* 0xFFFFFFFF is -1: the checker's integers are 32 bits wide.
U32Inc(x) == IF x = 2147483647 THEN (-2147483647) - 1 ELSE x + 1

U32Dec(x) == IF x = (-2147483647) - 1 THEN 2147483647 ELSE x - 1

\* a < b of two uint32_t.
LtU(a, b) == IF (a >= 0) = (b >= 0) THEN a < b ELSE b < 0

Min(S) == CHOOSE x \in S : \A y \in S : x <= y

\* Inputs of the calls.
\* The (module, datastore) pairs and the (xpath, priority) pairs of the
\* configuration subscriptions asked for.
ConfKeys == {<<"m1", "running">>, <<"m1", "startup">>, <<"m2", "running">>}

ConfSubs == {<<NULL, 0>>, <<"/m1:a", 5>>}

\* Further (xpath, priority) pairs that calls of sr_sub_conf_del ask for.
ConfDelOnly == {<<"/m1:a", 0>>, <<NULL, 5>>}

\* The (module, xpath) pairs of the data-provide subscriptions.
DpSubs == {<<"m1", "/m1:a">>, <<"m1", "/m1:b">>, <<"m2", "/m2:c">>}

\* The (xpath, rpc_cb, rpc_tree_cb) triples of the RPC subscriptions, and
\* triples that break the callback precondition of sr_sub_rpc_add.
RpcSubs == {<<"/m1:a", "cb1", NULL>>, <<"/m1:b", NULL, "tcb1">>, <<"/m2:c", "cb1", NULL>>}

RpcBad == {<<"/m1:a", NULL, NULL>>, <<"/m1:a", "cb1", "tcb1">>}

\* The (module, xpath) pairs of the notification subscriptions.
NotifSubs == {<<"m1", NULL>>, <<"m1", "/m1:a">>, <<"m2", NULL>>}

\* The runs: the kinds of subscription the client of the run asks for, and
\* the modules other processes hold subscriptions of meanwhile (which only
\* the calls for configuration and notification subscriptions ask about).
Scenarios ==
    {<<{"conf"}, {}>>, <<{"conf"}, {"m1"}>>, <<{"dp"}, {}>>, <<{"rpc"}, {}>>,
     <<{"notif"}, {}>>, <<{"notif"}, {"m1"}>>}

VARIABLES
    subs,        \* the sr_subscription_ctx_t: arrays, counters, pointer states
    subs_lock,   \* subs->subs_lock: "free", "self" (the operating thread), "other"
    files,       \* the subscription SHM files that exist
    pc,          \* position of the operating thread
    cur,         \* the call in progress: its arguments and locals
    ret,         \* what the last completed call returned
    proc,        \* "running", "segv" (crashed on an invalid access), "abort" (assert)
    dir,         \* main SHM: this handle's subscriptions recorded per segment name
    others,      \* the modules other processes hold subscriptions of
    kinds,       \* the kinds of subscription this run's client asks for
    rwlock,      \* an sr_rwlock_t: mutex (0 free, else the owning thread), readers
    thr,         \* the threads using rwlock: position, mode, locals
    seg,         \* an sr_shm_t, the size of its file, and the last call on it
    nm,          \* the last call of sr_str_hash or sr_path_sub_shm on its own
    ev,          \* the last configuration change event delivered to the handle
    clk          \* the last call of sr_time_get, and the call of sr_msleep in progress

vars ==
    <<subs, subs_lock, files, pc, cur, ret, proc, dir, others, kinds, rwlock, thr, seg,
      nm, ev, clk>>

\* The variables of the subscription registry, and those of the rwlock.
regvars == <<subs, subs_lock, files, pc, cur, ret, proc, dir, others, kinds>>

rwvars == <<rwlock, thr>>

----------------------------------------------------------------------------
(* sr_shm_t and its operations *)

ClosedShm == [fd |-> -1, addr |-> NULL, size |-> 0]

\* A clear that leaves the recorded size.
sr_shm_clear_m(shm) == [shm EXCEPT !.fd = -1, !.addr = NULL]

\* sr_shm_clear: unmap if mapped, close if open, size 0.
sr_shm_clear(shm) ==
    [fd   |-> IF shm.fd > -1 THEN -1 ELSE shm.fd,
     addr |-> IF shm.addr # NULL THEN NULL ELSE shm.addr,
     size |-> 0]

\* The system calls sr_shm_clear makes on shm, in order.
shm_clear_sys(shm) ==
    (IF shm.addr # NULL THEN <<"munmap">> ELSE <<>>)
        \o (IF shm.fd > -1 THEN <<"close">> ELSE <<>>)

\* The file sizes and requested sizes of the calls of sr_shm_remap.
Sizes == 0..MaxSize

\* sr_file_get_size(fd, &size) on a file of size fs: fstat fails (bad is what
\* makes a system call fail: "fstat", "ftruncate", "mmap" or "none") or on a
\* closed descriptor, else the size is read.
sr_file_get_size(fd, fs, bad) ==
    IF bad = "fstat" \/ fd = -1 THEN [err |-> "SR_ERR_SYS", size |-> 0]
    ELSE [err |-> "SR_ERR_OK", size |-> fs]

\* A remap that never finds the mapping fine.
remap_unchanged_m(shm, new_shm_size, shm_file_size) == FALSE

\* sr_shm_remap, line 1530: the size has not changed.
remap_unchanged(shm, new_shm_size, shm_file_size) ==
    \/ new_shm_size = 0 /\ shm_file_size = shm.size
    \/ new_shm_size # 0 /\ new_shm_size = shm.size

\* sr_shm_remap(shm, new_shm_size) on a file of size fs where system call bad
\* fails: the sr_shm_t and the file size it leaves, the system calls it made
\* and what it returns.
sr_shm_remap(shm, new_shm_size, fs, bad) ==
    LET gs   == IF new_shm_size = 0 THEN sr_file_get_size(shm.fd, fs, bad)
                ELSE [err |-> "SR_ERR_OK", size |-> 0]
        unm  == IF shm.addr # NULL THEN <<"munmap">> ELSE <<>>
        size == IF new_shm_size # 0 THEN new_shm_size ELSE gs.size
    IN  IF gs.err # "SR_ERR_OK"
        THEN [shm |-> shm, fsize |-> fs, sys |-> <<>>, err |-> gs.err]
        ELSE IF remap_unchanged(shm, new_shm_size, gs.size)
        THEN [shm |-> shm, fsize |-> fs, sys |-> <<>>, err |-> "SR_ERR_OK"]
        ELSE IF new_shm_size # 0 /\ (bad = "ftruncate" \/ shm.fd = -1)
        THEN [shm |-> [shm EXCEPT !.addr = NULL], fsize |-> fs,
              sys |-> unm \o <<"ftruncate">>, err |-> "SR_ERR_SYS"]
        ELSE LET trunc == IF new_shm_size # 0 THEN <<"ftruncate">> ELSE <<>>
                 fs1   == IF new_shm_size # 0 THEN new_shm_size ELSE fs
             IN  IF bad = "mmap" \/ size = 0 \/ shm.fd = -1
                 THEN [shm |-> [shm EXCEPT !.size = size, !.addr = NULL],
                       fsize |-> fs1, sys |-> unm \o trunc \o <<"mmap">>,
                       err |-> "SR_ERR_NOMEM"]
                 ELSE [shm |-> [shm EXCEPT !.size = size, !.addr = "mapped"],
                       fsize |-> fs1, sys |-> unm \o trunc \o <<"mmap">>,
                       err |-> "SR_ERR_OK"]

\* The sr_shm_t a successful sr_shmsub_open_map leaves: opened and mapped.
OpenedShm == [fd |-> 3, addr |-> "mapped", size |-> 4096]

ShmIsOpen(shm) == shm.fd > -1 /\ shm.addr # NULL

----------------------------------------------------------------------------
(* strings and sr_str_hash *)

\* The bytes of the strings the calls pass as xpath (ASCII).
Bytes(str) ==
    CASE str = "/m1:a" -> <<47, 109, 49, 58, 97>>
      [] str = "/m1:b" -> <<47, 109, 49, 58, 98>>
      [] str = "/m2:c" -> <<47, 109, 50, 58, 99>>

\* A uint32_t as its two 16-bit halves, for the shifts and sums of the hash.
Word(hi, lo) == [hi |-> hi, lo |-> lo]

WAdd(a, b) ==
    Word((a.hi + b.hi + ((a.lo + b.lo) \div 65536)) % 65536, (a.lo + b.lo) % 65536)

\* a << k and a >> k, for 0 < k < 16.
WShl(a, k) ==
    Word(((a.hi * (2 ^ k)) % 65536) + (a.lo \div (2 ^ (16 - k))),
         (a.lo * (2 ^ k)) % 65536)

WShr(a, k) ==
    Word(a.hi \div (2 ^ k), (a.lo \div (2 ^ k)) + ((a.hi % (2 ^ k)) * (2 ^ (16 - k))))

RECURSIVE Xor(_, _, _)
Xor(a, b, n) ==
    IF n = 0 THEN 0
    ELSE ((a + b) % 2) + 2 * Xor(a \div 2, b \div 2, n - 1)

WXor(a, b) == Word(Xor(a.hi, b.hi, 16), Xor(a.lo, b.lo, 16))

\* str[i] converted to uint32_t for hash += str[i].  str is a const char *:
\* where the build has char signed (sgn) a byte above 127 is a negative
\* value and is sign-extended, where it has char unsigned it is not.
CharToWord(c, sgn) ==
    IF sgn /\ c >= 128 THEN Word(65535, 65280 + c) ELSE Word(0, c)

\* The loop of sr_str_hash over the bytes from position i on.
RECURSIVE HashLoop(_, _, _, _)
HashLoop(hash, bytes, i, sgn) ==
    IF i > Len(bytes) THEN hash
    ELSE LET h1 == WAdd(hash, CharToWord(bytes[i], sgn))
             h2 == WAdd(h1, WShl(h1, 10))
             h3 == WXor(h2, WShr(h2, 6))
         IN  HashLoop(h3, bytes, i + 1, sgn)

\* sr_str_hash of the string of the given bytes in a build whose char is
\* signed (sgn) or unsigned.
str_hash(bytes, sgn) ==
    LET h0 == HashLoop(Word(0, 0), bytes, 1, sgn)
        h1 == WAdd(h0, WShl(h0, 3))
        h2 == WXor(h1, WShr(h1, 11))
    IN  WAdd(h2, WShl(h2, 15))

\* sr_str_hash of the xpaths of the subscriptions, which are ASCII: the
\* signedness of char makes no difference to them.
sr_str_hash(str) == str_hash(Bytes(str), TRUE)

\* The int64_t -1 that callers pass as suffix2 (a uint32_t hash passed as
\* suffix2 is a Word, whose halves are not negative).
MinusOne == Word(-1, -1)

\* The four hexadecimal digits of a 16-bit value.
Hex4(n) == <<n \div 4096, (n \div 256) % 16, (n \div 16) % 16, n % 16>>

\* A name function whose suffix2 is an int of 32 bits: a hash with the top
\* bit set is negative in it.
sr_path_sub_shm_m(mod_name, suffix1, suffix2) ==
    IF suffix2.hi > -1 /\ suffix2.hi < 32768
    THEN <<mod_name, suffix1>> \o Hex4(suffix2.hi) \o Hex4(suffix2.lo)
    ELSE <<mod_name, suffix1>>

\* sr_path_sub_shm: the name of a subscription SHM file, "sr_%s.%s.%08x" of
\* the module, suffix1 and the eight digits of suffix2 if suffix2 > -1, else
\* "sr_%s.%s".
sr_path_sub_shm(mod_name, suffix1, suffix2) ==
    IF suffix2.hi > -1
    THEN <<mod_name, suffix1>> \o Hex4(suffix2.hi) \o Hex4(suffix2.lo)
    ELSE <<mod_name, suffix1>>

\* sr_get_first_ns of the xpaths used: the module name before the first ':'.
sr_get_first_ns(expr) ==
    CASE expr = "/m1:a" -> "m1"
      [] expr = "/m1:b" -> "m1"
      [] expr = "/m2:c" -> "m2"

\* The bytes of the strings hashed: ASCII bytes and bytes above 127 (no 0,
\* which ends a string), and the strings of them.
ByteVals == {1, 97, 127, 128, 255}

Strs == UNION {[1..n -> ByteVals] : n \in 0..MaxLen}

\* suffix1 and suffix2 as the code of each kind of subscription passes them
\* for the segment of module mod, datastore ds and the xpath of the given
\* bytes: sr_ds2str(ds) and -1, "state" and the hash, "rpc" and the hash,
\* "notif" and -1.
KindSuffix1(kind, ds) ==
    CASE kind = "conf" -> ds
      [] kind = "dp" -> "state"
      [] kind = "rpc" -> "rpc"
      [] kind = "notif" -> "notif"

KindSuffix2(kind, bytes, sgn) ==
    IF kind \in {"dp", "rpc"} THEN str_hash(bytes, sgn) ELSE MinusOne

\* The names of the subscription SHM segments the calls can ask for.
AllNames ==
    {sr_path_sub_shm(k[1], k[2], MinusOne) : k \in ConfKeys}
    \cup {sr_path_sub_shm(v[1], "state", sr_str_hash(v[2])) : v \in DpSubs}
    \cup {sr_path_sub_shm(sr_get_first_ns(v[1]), "rpc", sr_str_hash(v[1])) : v \in RpcSubs}
    \cup {sr_path_sub_shm(v[1], "notif", MinusOne) : v \in NotifSubs}

----------------------------------------------------------------------------
(* arrays *)

\* realloc(arr, n * sizeof *arr): the first slots kept, new slots as given.
Realloc(arr, n, slot) ==
    [k \in 1..n |-> IF k <= Len(arr) THEN arr[k] ELSE slot]

\* memcpy of the last of the first n slots over slot i, as the del functions do.
SwapRemove(arr, i, n) ==
    IF i < n THEN [arr EXCEPT ![i] = arr[n]] ELSE arr

----------------------------------------------------------------------------
(* the call in progress *)

\* mem[4] of the add functions: TRUE where the pointer is non-NULL.
NoMem == <<FALSE, FALSE, FALSE, FALSE>>

\* An sr_subscription_ctx_t with no subscription.
EmptySubs ==
    [conf_subs |-> <<>>, conf_sub_count |-> 0, conf_ptr |-> "null",
     dp_subs |-> <<>>, dp_sub_count |-> 0, dp_ptr |-> "null",
     rpc_subs |-> <<>>, rpc_sub_count |-> 0, rpc_ptr |-> "null",
     notif_subs |-> <<>>, notif_sub_count |-> 0, notif_ptr |-> "null"]

\* No call in progress.  Of a call in progress: the function (op), its
\* arguments, the locals its error label reads (mem, grp, err), and the
\* registry as the call found it (pre).
NoCall ==
    [op |-> "none", mod_name |-> NULL, xpath |-> NULL, ds |-> NULL, priority |-> 0,
     cb |-> NULL, tree_cb |-> NULL, start_time |-> 0, has_subs_lock |-> FALSE,
     mem |-> NoMem, grp |-> 0, err |-> "SR_ERR_OK", pre |-> EmptySubs,
     log |-> <<>>]

\* What one run of a function body leaves: the registry, the files, where the
\* code goes next ("ok": unlock and return NULL; "error_unlock": the label;
\* "ret_locked": return without unlocking; "assert": assert(0); "segv"), and the
\* locals the error label reads.
Outcome(S, Fs, goto, mem, grp, err) ==
    [subs |-> S, files |-> Fs, goto |-> goto, mem |-> mem, grp |-> grp, err |-> err,
     ub |-> FALSE]

Segv == Outcome(subs, files, "segv", NoMem, 0, "SR_ERR_OK")

\* The outcomes of code that goes on to outcomes O after an access that is
\* undefined where c holds: the access crashes, or it goes through and the
\* run continues as an execution that has had undefined behaviour (ub).
MayCrash(c, O) ==
    IF c THEN {Segv} \cup {[o EXCEPT !.ub = TRUE] : o \in O} ELSE O

\* Number of entries the handle holds (for the bound).
RECURSIVE SumLen(_)
SumLen(arr) ==
    IF arr = <<>> THEN 0 ELSE Len(Head(arr).subs) + SumLen(Tail(arr))

----------------------------------------------------------------------------
(* configuration subscriptions *)

\* A struct modsub_conf_s after memset 0 and sub_shm.fd = -1.
ZeroConf ==
    [module_name |-> NULL, ds |-> "ds0", subs |-> <<>>, sub_shm |-> ClosedShm,
     nfreed |-> FALSE, sfreed |-> FALSE]

\* A search loop that stops one slot short of the count.
GroupScan_m(arr, cnt, ptr, hits) ==
    LET lim   == IF LtU(cnt, Len(arr)) THEN cnt ELSE Len(arr)
        stops == {k \in 1..(lim - 1) : arr[k].module_name = NULL \/ k \in hits}
                     \cup {lim + 1}
        first == Min(stops)
    IN  [i   |-> first,
         st  |-> IF first <= lim THEN "found" ELSE "new",
         uaf |-> FALSE]

\* The search loop of the add functions over a group array: the first slot
\* below cnt that matches.  st is "found", "new" (i = cnt) or "segv" (the
\* loop ran off the allocation or compared against a NULL name); uaf tells
\* whether a slot or name that was read had been freed.  hits are the slots
\* of arr whose key fields equal the arguments of the call.
GroupScan(arr, cnt, ptr, hits) ==
    LET lim   == IF LtU(cnt, Len(arr)) THEN cnt ELSE Len(arr)
        stops == {k \in 1..lim : arr[k].module_name = NULL \/ k \in hits}
                     \cup {lim + 1}
        first == Min(stops)
        read  == 1..(IF first <= lim THEN first ELSE lim)
    IN  [i   |-> first,
         st  |-> IF first <= lim
                 THEN (IF arr[first].module_name = NULL THEN "segv" ELSE "found")
                 ELSE (IF LtU(Len(arr), cnt) THEN "segv" ELSE "new"),
         uaf |-> read # {} /\ (ptr = "freed" \/ \E k \in read : arr[k].nfreed)]

\* An entry that does not take the priority of the call.
ConfEntry_m(a) ==
    [xpath |-> a.xpath, priority |-> 0, opts |-> 0, cb |-> a.cb,
     private_data |-> "pd", event_id |-> 0, event |-> "SR_SUB_EV_NONE",
     xfreed |-> FALSE]

\* sr_sub_conf_add, lines 87-99: the entry of a call with arguments a.
ConfEntry(a) ==
    [xpath |-> a.xpath, priority |-> a.priority, opts |-> 0, cb |-> a.cb,
     private_data |-> "pd", event_id |-> 0, event |-> "SR_SUB_EV_NONE",
     xfreed |-> FALSE]

\* sr_sub_conf_add, lines 82-105: the entry is added to group g of registry S.
conf_add_entry(S, Fs, g, mem, a) ==
    LET grp  == S.conf_subs[g]
        live == [S EXCEPT !.conf_subs[g].sfreed = FALSE]
        done == [live EXCEPT !.conf_subs[g].subs = Append(grp.subs, ConfEntry(a))]
    IN  MayCrash(grp.sfreed,
             {Outcome(S, Fs, "error_unlock", mem, g, "SR_ERR_NOMEM")}
        \cup (IF a.xpath # NULL
              THEN {Outcome(live, Fs, "ret_locked", mem, g, "SR_ERR_NOMEM")}
              ELSE {})
        \cup {Outcome(done, Fs, "ok", mem, g, "SR_ERR_OK")})

\* sr_sub_conf_add, lines 56-77: no group of (mod_name, ds) yet.
conf_add_new(a) ==
    LET n    == subs.conf_sub_count
        arr0 == Realloc(subs.conf_subs, n + 1, ZeroConf)
        S0   == [subs EXCEPT !.conf_subs = arr0, !.conf_ptr = "live"]
        S1   == [S0 EXCEPT !.conf_subs[n + 1].module_name = a.mod_name,
                           !.conf_subs[n + 1].ds = a.ds]
        S2   == [S1 EXCEPT !.conf_subs[n + 1].sub_shm = OpenedShm,
                           !.conf_sub_count = U32Inc(n)]
        Fs2  == files \cup {sr_path_sub_shm(a.mod_name, a.ds, MinusOne)}
    IN  MayCrash(subs.conf_ptr = "freed",
             {Outcome(subs, files, "error_unlock", NoMem, 0, "SR_ERR_NOMEM")}
        \cup {Outcome(S0, files, "error_unlock", <<TRUE, FALSE, FALSE, FALSE>>,
                      n + 1, "SR_ERR_NOMEM")}
        \cup {Outcome(S1, files, "error_unlock", <<TRUE, TRUE, FALSE, FALSE>>,
                      n + 1, "SR_ERR_SYS")}
        \cup conf_add_entry(S2, Fs2, n + 1, <<TRUE, TRUE, FALSE, FALSE>>, a))

\* sr_sub_conf_add between SUBS LOCK and the unlock.
conf_add_outcomes(a) ==
    LET s == GroupScan(subs.conf_subs, subs.conf_sub_count, subs.conf_ptr,
                       {k \in DOMAIN subs.conf_subs :
                            /\ subs.conf_subs[k].module_name = a.mod_name
                            /\ subs.conf_subs[k].ds = a.ds})
    IN  IF s.st = "segv" THEN {Segv}
        ELSE MayCrash(s.uaf,
                  (IF s.st = "new" THEN conf_add_new(a)
                   ELSE conf_add_entry(subs, files, s.i, NoMem, a)))

\* sr_sub_conf_add after error_unlock's sr_munlock, lines 111-120.
conf_add_rollback(S, mem, g) ==
    LET S1 == IF mem[1] THEN [S EXCEPT !.conf_ptr = "freed"] ELSE S
        S2 == IF mem[2] THEN [S1 EXCEPT !.conf_subs[g].nfreed = TRUE] ELSE S1
        S3 == IF g # 0
              THEN [S2 EXCEPT !.conf_subs[g].sub_shm = sr_shm_clear(@)]
              ELSE S2
    IN  IF mem[2] THEN [S3 EXCEPT !.conf_sub_count = U32Dec(@)] ELSE S3

\* sr_sub_conf_del, lines 145-152: what the two tests of the inner loop do with
\* entry e: "skip" (continue) or "match".  With both paths NULL the first test
\* reaches strcmp(NULL, NULL), which is undefined; where that call returns,
\* nc is what it returned: "eq" or "ne".
conf_del_test(e, a, nc) ==
    IF (a.xpath = NULL /\ e.xpath # NULL) \/ (a.xpath # NULL /\ e.xpath = NULL)
    THEN "skip"
    ELSE IF (a.xpath = NULL /\ nc = "ne") \/ (a.xpath # NULL /\ e.xpath # a.xpath)
    THEN "skip"
    ELSE IF e.priority # a.priority \/ e.opts # 0 \/ e.cb # a.cb
            \/ e.private_data # "pd"
    THEN "skip"
    ELSE "match"

\* sr_sub_conf_del, lines 137-182: the two loops from group i, entry j on.  u
\* collects whether freed memory was read or strcmp was called on NULL.
RECURSIVE conf_del_find(_, _, _, _, _)
conf_del_find(i, j, a, nc, u) ==
    IF ~LtU(i - 1, subs.conf_sub_count) THEN [st |-> "none", i |-> 0, j |-> 0, uaf |-> u]
    ELSE IF i > Len(subs.conf_subs) THEN [st |-> "segv", i |-> 0, j |-> 0, uaf |-> u]
    ELSE
        LET g  == subs.conf_subs[i]
            u1 == u \/ subs.conf_ptr = "freed"
        IN  IF g.ds # a.ds THEN conf_del_find(i + 1, 1, a, nc, u1)
            ELSE IF g.module_name = NULL THEN [st |-> "segv", i |-> 0, j |-> 0, uaf |-> u1]
            ELSE IF g.module_name # a.mod_name
            THEN conf_del_find(i + 1, 1, a, nc, u1 \/ g.nfreed)
            ELSE IF j > Len(g.subs)
            THEN conf_del_find(i + 1, 1, a, nc, u1 \/ g.nfreed)
            ELSE
                LET t  == conf_del_test(g.subs[j], a, nc)
                    u2 == u1 \/ g.nfreed \/ g.sfreed \/ g.subs[j].xfreed
                             \/ (a.xpath = NULL /\ g.subs[j].xpath = NULL)
                IN  IF t = "skip" THEN conf_del_find(i, j + 1, a, nc, u2)
                    ELSE [st |-> t, i |-> i, j |-> j, uaf |-> u2]

\* sr_sub_conf_del, lines 154-176: entry j of group i is removed.
conf_del_remove(S, i, j) ==
    LET g    == S.conf_subs[i]
        n    == Len(g.subs)
        rest == SubSeq(SwapRemove(g.subs, j, n), 1, n - 1)
        cnt  == S.conf_sub_count
        arr  == SubSeq(SwapRemove(S.conf_subs, i, cnt), 1, cnt - 1)
    IN  IF n - 1 # 0
        THEN [S EXCEPT !.conf_subs[i].subs = rest]
        ELSE IF cnt - 1 # 0
        THEN [S EXCEPT !.conf_subs = arr, !.conf_sub_count = cnt - 1]
        ELSE [S EXCEPT !.conf_subs = <<>>, !.conf_sub_count = 0, !.conf_ptr = "null"]

\* sr_sub_conf_del between SUBS LOCK and the unlock.
conf_del_outcomes(a) ==
    UNION {
        LET f == conf_del_find(1, 1, a, nc, FALSE)
        IN  IF f.st = "segv" THEN {Segv}
            ELSE MayCrash(f.uaf,
                      (IF f.st = "none"
                       THEN {Outcome(subs, files, "assert", NoMem, 0, "SR_ERR_OK")}
                       ELSE {Outcome(conf_del_remove(subs, f.i, f.j), files, "ok",
                                     NoMem, 0, "SR_ERR_OK")}))
        : nc \in {"eq", "ne"} }

----------------------------------------------------------------------------
(* data-provide subscriptions *)

\* A struct modsub_dp_s after memset 0.
ZeroDp ==
    [module_name |-> NULL, subs |-> <<>>, nfreed |-> FALSE, sfreed |-> FALSE]

DpEntry(a) ==
    [xpath |-> a.xpath, cb |-> a.cb, private_data |-> "pd", sub_shm |-> OpenedShm,
     xfreed |-> FALSE]

\* sr_sub_dp_add, lines 234-258: the entry is added to group g of registry S.
dp_add_entry(S, g, mem, a) ==
    LET grp  == S.dp_subs[g]
        live == [S EXCEPT !.dp_subs[g].sfreed = FALSE]
        done == [live EXCEPT !.dp_subs[g].subs = Append(grp.subs, DpEntry(a))]
        name == sr_path_sub_shm(a.mod_name, "state", sr_str_hash(a.xpath))
    IN  MayCrash(grp.sfreed,
             {Outcome(S, files, "error_unlock", mem, g, "SR_ERR_NOMEM")}
        \cup {Outcome(live, files, "error_unlock", [mem EXCEPT ![3] = TRUE], g,
                      "SR_ERR_NOMEM")}
        \cup {Outcome(live, files, "error_unlock",
                      [mem EXCEPT ![3] = TRUE, ![4] = TRUE], g, "SR_ERR_SYS")}
        \cup {Outcome(done, files \cup {name}, "ok", mem, g, "SR_ERR_OK")})

\* sr_sub_dp_add, lines 215-229: no group of mod_name yet.
dp_add_new(a) ==
    LET n    == subs.dp_sub_count
        arr0 == Realloc(subs.dp_subs, n + 1, ZeroDp)
        S0   == [subs EXCEPT !.dp_subs = arr0, !.dp_ptr = "live"]
        S1   == [S0 EXCEPT !.dp_subs[n + 1].module_name = a.mod_name,
                           !.dp_sub_count = U32Inc(n)]
    IN  MayCrash(subs.dp_ptr = "freed",
             {Outcome(subs, files, "error_unlock", NoMem, 0, "SR_ERR_NOMEM")}
        \cup {Outcome(S0, files, "error_unlock", <<TRUE, FALSE, FALSE, FALSE>>,
                      n + 1, "SR_ERR_NOMEM")}
        \cup dp_add_entry(S1, n + 1, <<TRUE, TRUE, FALSE, FALSE>>, a))

\* sr_sub_dp_add between SUBS LOCK and the unlock.
dp_add_outcomes(a) ==
    LET s == GroupScan(subs.dp_subs, subs.dp_sub_count, subs.dp_ptr,
                       {k \in DOMAIN subs.dp_subs :
                            subs.dp_subs[k].module_name = a.mod_name})
    IN  IF s.st = "segv" THEN {Segv}
        ELSE MayCrash(s.uaf,
                  (IF s.st = "new" THEN dp_add_new(a)
                   ELSE dp_add_entry(subs, s.i, NoMem, a)))

\* sr_sub_dp_add after error_unlock's sr_munlock, lines 264-269.
dp_add_rollback(S, mem, g) ==
    LET S1 == IF mem[1] THEN [S EXCEPT !.dp_ptr = "freed"] ELSE S
        S2 == IF mem[2] THEN [S1 EXCEPT !.dp_subs[g].nfreed = TRUE] ELSE S1
        S3 == IF mem[3] THEN [S2 EXCEPT !.dp_subs[g].sfreed = TRUE] ELSE S2
    IN  IF mem[2] THEN [S3 EXCEPT !.dp_sub_count = U32Dec(@)] ELSE S3

\* sr_sub_dp_del, lines 286-326: the two loops from group i, entry j on.
RECURSIVE dp_del_find(_, _, _, _)
dp_del_find(i, j, a, u) ==
    IF ~LtU(i - 1, subs.dp_sub_count) THEN [st |-> "none", i |-> 0, j |-> 0, uaf |-> u]
    ELSE IF i > Len(subs.dp_subs) THEN [st |-> "segv", i |-> 0, j |-> 0, uaf |-> u]
    ELSE
        LET g  == subs.dp_subs[i]
            u1 == u \/ subs.dp_ptr = "freed" \/ g.nfreed
        IN  IF g.module_name = NULL THEN [st |-> "segv", i |-> 0, j |-> 0, uaf |-> u1]
            ELSE IF g.module_name # a.mod_name \/ j > Len(g.subs)
            THEN dp_del_find(i + 1, 1, a, u1)
            ELSE
                LET u2 == u1 \/ g.sfreed \/ g.subs[j].xfreed
                IN  IF g.subs[j].xpath # a.xpath THEN dp_del_find(i, j + 1, a, u2)
                    ELSE [st |-> "match", i |-> i, j |-> j, uaf |-> u2]

\* sr_sub_dp_del, lines 298-320: entry j of group i is removed.
dp_del_remove(S, i, j) ==
    LET g    == S.dp_subs[i]
        n    == Len(g.subs)
        rest == SubSeq(SwapRemove(g.subs, j, n), 1, n - 1)
        cnt  == S.dp_sub_count
        arr  == SubSeq(SwapRemove(S.dp_subs, i, cnt), 1, cnt - 1)
    IN  IF n - 1 # 0
        THEN [S EXCEPT !.dp_subs[i].subs = rest]
        ELSE IF cnt - 1 # 0
        THEN [S EXCEPT !.dp_subs = arr, !.dp_sub_count = cnt - 1]
        ELSE [S EXCEPT !.dp_subs = <<>>, !.dp_sub_count = 0, !.dp_ptr = "null"]

\* sr_sub_dp_del between SUBS LOCK and the unlock.
dp_del_outcomes(a) ==
    LET f == dp_del_find(1, 1, a, FALSE)
    IN  IF f.st = "segv" THEN {Segv}
        ELSE MayCrash(f.uaf,
                  (IF f.st = "none"
                   THEN {Outcome(subs, files, "assert", NoMem, 0, "SR_ERR_OK")}
                   ELSE {Outcome(dp_del_remove(subs, f.i, f.j), files, "ok",
                                 NoMem, 0, "SR_ERR_OK")}))

----------------------------------------------------------------------------
(* RPC/action subscriptions *)

RpcEntry(a) ==
    [xpath |-> a.xpath, cb |-> a.cb, tree_cb |-> a.tree_cb, private_data |-> "pd",
     sub_shm |-> OpenedShm, xfreed |-> FALSE]

\* sr_sub_rpc_add between SUBS LOCK and the unlock, lines 351-375.
rpc_add_outcomes(a) ==
    LET n    == subs.rpc_sub_count
        arr  == Realloc(subs.rpc_subs, n + 1, RpcEntry(a))
        S0   == [subs EXCEPT !.rpc_subs = SubSeq(arr, 1, n), !.rpc_ptr = "live"]
        done == [subs EXCEPT !.rpc_subs = arr, !.rpc_ptr = "live",
                             !.rpc_sub_count = U32Inc(n)]
        name == sr_path_sub_shm(a.mod_name, "rpc", sr_str_hash(a.xpath))
    IN  MayCrash(subs.rpc_ptr = "freed",
             {Outcome(subs, files, "error_unlock", NoMem, 0, "SR_ERR_NOMEM")}
        \cup {Outcome(S0, files, "error_unlock", NoMem, 0, "SR_ERR_NOMEM")}
        \cup {Outcome(S0, files, "error_unlock", NoMem, 0, "SR_ERR_SYS")}
        \cup {Outcome(done, files \cup {name}, "ok", NoMem, 0, "SR_ERR_OK")})

\* sr_sub_rpc_del, lines 398-403: the loop from entry i on.
RECURSIVE rpc_del_find(_, _, _)
rpc_del_find(i, a, u) ==
    IF ~LtU(i - 1, subs.rpc_sub_count) THEN [st |-> "none", i |-> 0, uaf |-> u]
    ELSE IF i > Len(subs.rpc_subs) THEN [st |-> "segv", i |-> 0, uaf |-> u]
    ELSE
        LET e  == subs.rpc_subs[i]
            u1 == u \/ subs.rpc_ptr = "freed" \/ e.xfreed
        IN  IF e.xpath # a.xpath THEN rpc_del_find(i + 1, a, u1)
            ELSE [st |-> "match", i |-> i, uaf |-> u1]

\* The memcpy of line 409.  Its destination is &rpc_sub, the address of the
\* local pointer, not the slot it points to: slot i is left as it is, and the
\* bytes of the last entry are written over the stack of sr_sub_rpc_del.
rpc_del_memcpy(arr, i, n) ==
    arr

\* sr_sub_rpc_del, lines 405-417: entry i is removed.
rpc_del_remove(S, i) ==
    LET cnt == S.rpc_sub_count
        arr0 == [S.rpc_subs EXCEPT ![i].xfreed = TRUE,
                                   ![i].sub_shm = sr_shm_clear(@)]
        arr  == SubSeq(IF i < cnt THEN rpc_del_memcpy(arr0, i, cnt) ELSE arr0,
                       1, cnt - 1)
    IN  IF cnt - 1 # 0
        THEN [S EXCEPT !.rpc_subs = arr, !.rpc_sub_count = cnt - 1]
        ELSE [S EXCEPT !.rpc_subs = <<>>, !.rpc_sub_count = 0, !.rpc_ptr = "null"]

\* sr_sub_rpc_del between SUBS LOCK and the unlock.  Where the memcpy runs it
\* overruns the local it writes to, which may crash the call.
rpc_del_outcomes(a) ==
    LET f == rpc_del_find(1, a, FALSE)
    IN  IF f.st = "segv" THEN {Segv}
        ELSE MayCrash(f.uaf,
                  (IF f.st = "none"
                   THEN {Outcome(subs, files, "assert", NoMem, 0, "SR_ERR_OK")}
                   ELSE MayCrash(f.i < subs.rpc_sub_count,
                             {Outcome(rpc_del_remove(subs, f.i), files, "ok",
                                      NoMem, 0, "SR_ERR_OK")})))

----------------------------------------------------------------------------
(* notification subscriptions *)

\* A struct modsub_notif_s after memset 0 and sub_shm.fd = -1.
ZeroNotif ==
    [module_name |-> NULL, subs |-> <<>>, sub_shm |-> ClosedShm,
     nfreed |-> FALSE, sfreed |-> FALSE]

NotifEntry(a) ==
    [xpath |-> a.xpath, start_time |-> a.start_time, stop_time |-> 0, replayed |-> 0,
     cb |-> a.cb, tree_cb |-> NULL, private_data |-> "pd", xfreed |-> FALSE]

\* sr_sub_notif_add, lines 480-505: the entry is added to group g of registry S.
notif_add_entry(S, Fs, g, mem, a) ==
    LET grp  == S.notif_subs[g]
        live == [S EXCEPT !.notif_subs[g].sfreed = FALSE]
        done == [live EXCEPT !.notif_subs[g].subs = Append(grp.subs, NotifEntry(a))]
    IN  MayCrash(grp.sfreed,
             {Outcome(S, Fs, "error_unlock", mem, g, "SR_ERR_NOMEM")}
        \cup (IF a.xpath # NULL
              THEN {Outcome(live, Fs, "error_unlock", [mem EXCEPT ![3] = TRUE], g,
                            "SR_ERR_NOMEM")}
              ELSE {})
        \cup {Outcome(done, Fs, "ok", mem, g, "SR_ERR_OK")})

\* sr_sub_notif_add, lines 455-475: no group of mod_name yet.
notif_add_new(a) ==
    LET n    == subs.notif_sub_count
        arr0 == Realloc(subs.notif_subs, n + 1, ZeroNotif)
        S0   == [subs EXCEPT !.notif_subs = arr0, !.notif_ptr = "live"]
        S1   == [S0 EXCEPT !.notif_subs[n + 1].module_name = a.mod_name]
        S2   == [S1 EXCEPT !.notif_subs[n + 1].sub_shm = OpenedShm,
                           !.notif_sub_count = U32Inc(n)]
        Fs2  == files \cup {sr_path_sub_shm(a.mod_name, "notif", MinusOne)}
    IN  MayCrash(subs.notif_ptr = "freed",
             {Outcome(subs, files, "error_unlock", NoMem, 0, "SR_ERR_NOMEM")}
        \cup {Outcome(S0, files, "error_unlock", <<TRUE, FALSE, FALSE, FALSE>>,
                      n + 1, "SR_ERR_NOMEM")}
        \cup {Outcome(S1, files, "error_unlock", <<TRUE, TRUE, FALSE, FALSE>>,
                      n + 1, "SR_ERR_SYS")}
        \cup notif_add_entry(S2, Fs2, n + 1, <<TRUE, TRUE, FALSE, FALSE>>, a))

\* sr_sub_notif_add between SUBS LOCK and the unlock.
notif_add_outcomes(a) ==
    LET s == GroupScan(subs.notif_subs, subs.notif_sub_count, subs.notif_ptr,
                       {k \in DOMAIN subs.notif_subs :
                            subs.notif_subs[k].module_name = a.mod_name})
    IN  IF s.st = "segv" THEN {Segv}
        ELSE MayCrash(s.uaf,
                  (IF s.st = "new" THEN notif_add_new(a)
                   ELSE notif_add_entry(subs, files, s.i, NoMem, a)))

\* sr_sub_notif_add after error_unlock's sr_munlock, lines 511-517.
notif_add_rollback(S, mem, g) ==
    LET S1 == IF mem[1] THEN [S EXCEPT !.notif_ptr = "freed"] ELSE S
        S2 == IF mem[2] THEN [S1 EXCEPT !.notif_subs[g].nfreed = TRUE] ELSE S1
        S3 == IF mem[3] THEN [S2 EXCEPT !.notif_subs[g].sfreed = TRUE] ELSE S2
    IN  IF mem[2]
        THEN [S3 EXCEPT !.notif_sub_count = U32Dec(@),
                        !.notif_subs[g].sub_shm = sr_shm_clear(@)]
        ELSE S3

\* sr_sub_notif_del, lines 545-553: what the two tests of the inner loop do
\* with entry e: "skip" (continue) or "match".
notif_del_test(e, a) ==
    IF (a.xpath = NULL /\ e.xpath # NULL)
         \/ (a.xpath # NULL /\ (e.xpath = NULL \/ e.xpath # a.xpath))
    THEN "skip"
    ELSE IF a.start_time # e.start_time \/ e.stop_time # 0 \/ a.cb # e.cb
            \/ e.tree_cb # NULL \/ e.private_data # "pd"
    THEN "skip"
    ELSE "match"

\* sr_sub_notif_del, lines 537-585: the two loops from group i, entry j on.
RECURSIVE notif_del_find(_, _, _, _)
notif_del_find(i, j, a, u) ==
    IF ~LtU(i - 1, subs.notif_sub_count) THEN [st |-> "none", i |-> 0, j |-> 0, uaf |-> u]
    ELSE IF i > Len(subs.notif_subs) THEN [st |-> "segv", i |-> 0, j |-> 0, uaf |-> u]
    ELSE
        LET g  == subs.notif_subs[i]
            u1 == u \/ subs.notif_ptr = "freed" \/ g.nfreed
        IN  IF g.module_name = NULL THEN [st |-> "segv", i |-> 0, j |-> 0, uaf |-> u1]
            ELSE IF g.module_name # a.mod_name \/ j > Len(g.subs)
            THEN notif_del_find(i + 1, 1, a, u1)
            ELSE
                LET u2 == u1 \/ g.sfreed
                            \/ (a.xpath # NULL /\ g.subs[j].xpath # NULL
                                  /\ g.subs[j].xfreed)
                IN  IF notif_del_test(g.subs[j], a) = "skip"
                    THEN notif_del_find(i, j + 1, a, u2)
                    ELSE [st |-> "match", i |-> i, j |-> j, uaf |-> u2]

\* sr_sub_notif_del, lines 555-577: entry j of group i is removed.
notif_del_remove(S, i, j) ==
    LET g    == S.notif_subs[i]
        n    == Len(g.subs)
        rest == SubSeq(SwapRemove(g.subs, j, n), 1, n - 1)
        cnt  == S.notif_sub_count
        arr  == SubSeq(SwapRemove(S.notif_subs, i, cnt), 1, cnt - 1)
    IN  IF n - 1 # 0
        THEN [S EXCEPT !.notif_subs[i].subs = rest]
        ELSE IF cnt - 1 # 0
        THEN [S EXCEPT !.notif_subs = arr, !.notif_sub_count = cnt - 1]
        ELSE [S EXCEPT !.notif_subs = <<>>, !.notif_sub_count = 0, !.notif_ptr = "null"]

\* sr_sub_notif_del between the lock and the unlock.
notif_del_outcomes(a) ==
    LET f == notif_del_find(1, 1, a, FALSE)
    IN  IF f.st = "segv" THEN {Segv}
        ELSE MayCrash(f.uaf,
                  (IF f.st = "none"
                   THEN {Outcome(subs, files, "assert", NoMem, 0, "SR_ERR_OK")}
                   ELSE {Outcome(notif_del_remove(subs, f.i, f.j), files, "ok",
                                 NoMem, 0, "SR_ERR_OK")}))

----------------------------------------------------------------------------
(* sr_subs_del_all *)

\* The state sr_subs_del_all works on: the registry, the files, the main SHM
\* directory, its local last_removed ("uninit" until a call sets it), and
\* whether it has accessed freed memory (ub).  log lists, in order, what the
\* call has done so far: its directory calls, unlinks and frees, each with
\* the segment name (or module) it was done for.
DelAllState(S, Fs, d, lr) ==
    [subs |-> S, files |-> Fs, dir |-> d, lr |-> lr, ub |-> FALSE, log |-> <<>>]

\* One more thing done by sr_subs_del_all in state M.
Did(M, what, name) == [M EXCEPT !.log = Append(@, <<what, name>>)]

\* How sr_subs_del_all ends from state M: it returns err, or crashes.
DelAllEnd(M, goto, err) ==
    [subs |-> M.subs, files |-> M.files, dir |-> M.dir, goto |-> goto, err |-> err,
     ub |-> M.ub, log |-> M.log]

\* A failed directory call after which the group arrays are freed before the
\* error is returned.
del_all_fail_m(M, err) ==
    {DelAllEnd(Did([M EXCEPT !.subs.conf_ptr = "freed"], "free", <<>>), "return", err)}

\* sr_subs_del_all, e.g. lines 613-616: a directory call failed in state M
\* with error err, which is returned at once.
del_all_fail(M, err) == {DelAllEnd(M, "return", err)}

\* sr_shmmod_*_subscription(..., add = 0, &last_removed) for segment name: the
\* call fails, or removes one subscription of this handle from the directory
\* and, where the call has the last_removed parameter (has_last), reports
\* whether the segment has no subscriber left.  The log tells a removal of
\* the last subscriber in the system ("shmmod_last") from another ("shmmod").
shmmod_del(M, name, has_last) ==
    LET last == M.dir[name] = 1 /\ name[1] \notin others
    IN  {[ok |-> FALSE, err |-> "SR_ERR_NOT_FOUND",
          M |-> Did(M, "shmmod_failed", name)]}
        \cup (IF M.dir[name] > 0
              THEN {[ok |-> TRUE, err |-> "SR_ERR_OK",
                     M  |-> [Did(M, IF last THEN "shmmod_last" ELSE "shmmod", name)
                               EXCEPT !.dir[name] = @ - 1,
                                      !.lr = IF ~has_last THEN @
                                             ELSE IF last THEN "yes" ELSE "no"]]}
              ELSE {})

\* unlink(path) of the file of segment name.
unlink(M, name) == [Did(M, "unlink", name) EXCEPT !.files = @ \ {name}]

\* What a step of sr_subs_del_all that is undefined where c holds leads to,
\* besides the outcomes of going on from M with ub set: a crash.
DelAllCrash(c, M) ==
    IF c THEN {DelAllEnd(M, "segv", "SR_ERR_OK")} ELSE {}

\* free(arr) after the loop over a kind: the pointer is left dangling.
FreedPtr(ptr) == IF ptr = "null" THEN "null" ELSE "freed"

\* Whether the step of a two-level loop at group i, entry j of array arr
\* (count cnt, pointer state ptr) reads or frees memory that was freed.
GroupUaf(arr, cnt, ptr, i, j) ==
    IF ~LtU(i - 1, cnt) THEN ptr = "freed"
    ELSE IF i > Len(arr) THEN FALSE
    ELSE ptr = "freed" \/ arr[i].nfreed \/ arr[i].sfreed
           \/ (j <= Len(arr[i].subs) /\ arr[i].subs[j].xfreed)

RECURSIVE del_all_conf(_, _, _)
RECURSIVE del_all_dp(_, _, _)
RECURSIVE del_all_rpc(_, _)
RECURSIVE del_all_notif(_, _, _)

\* sr_subs_del_all, lines 703-736, from group i, entry j on.
del_all_notif(M0, i, j) ==
    LET c == GroupUaf(M0.subs.notif_subs, M0.subs.notif_sub_count,
                      M0.subs.notif_ptr, i, j)
        M == [M0 EXCEPT !.ub = @ \/ c]
    IN  DelAllCrash(c, M0) \cup
        IF ~LtU(i - 1, M.subs.notif_sub_count)
        THEN {DelAllEnd([M EXCEPT !.subs.notif_ptr = FreedPtr(@)], "return", "SR_ERR_OK")}
        ELSE IF i > Len(M.subs.notif_subs) \/ M.subs.notif_subs[i].module_name = NULL
        THEN {DelAllEnd(M, "segv", "SR_ERR_OK")}
        ELSE
            LET g    == M.subs.notif_subs[i]
                name == sr_path_sub_shm(g.module_name, "notif", MinusOne)
                fin(X) == [Did(X, "free", name) EXCEPT
                                    !.subs.notif_subs[i].nfreed = TRUE,
                                    !.subs.notif_subs[i].sfreed = TRUE,
                                    !.subs.notif_subs[i].sub_shm = sr_shm_clear(@)]
            IN  IF j <= Len(g.subs)
                THEN UNION {
                       IF r.ok
                       THEN del_all_notif(
                              [r.M EXCEPT !.subs.notif_subs[i].subs[j].xfreed =
                                          g.subs[j].xpath # NULL],
                              i, j + 1)
                       ELSE del_all_fail(r.M, r.err)
                       : r \in shmmod_del(M, name, TRUE)}
                ELSE (IF M.lr \in {"yes", "uninit"}
                      THEN {DelAllEnd(M, "return", "SR_ERR_NOMEM")}
                           \cup del_all_notif(fin(unlink(M, name)),
                                              i + 1, 1)
                      ELSE {})
                     \cup (IF M.lr \in {"no", "uninit"}
                           THEN del_all_notif(fin(M), i + 1, 1)
                           ELSE {})

\* sr_subs_del_all, lines 674-701, from entry i on.
del_all_rpc(M0, i) ==
    LET c == IF ~LtU(i - 1, M0.subs.rpc_sub_count) THEN M0.subs.rpc_ptr = "freed"
             ELSE IF i > Len(M0.subs.rpc_subs) THEN FALSE
             ELSE M0.subs.rpc_ptr = "freed" \/ M0.subs.rpc_subs[i].xfreed
        M == [M0 EXCEPT !.ub = @ \/ c]
    IN  DelAllCrash(c, M0) \cup
        IF ~LtU(i - 1, M.subs.rpc_sub_count)
        THEN del_all_notif([M EXCEPT !.subs.rpc_ptr = FreedPtr(@)], 1, 1)
        ELSE IF i > Len(M.subs.rpc_subs)
        THEN {DelAllEnd(M, "segv", "SR_ERR_OK")}
        ELSE
            LET e    == M.subs.rpc_subs[i]
                mod  == sr_get_first_ns(e.xpath)
                name == sr_path_sub_shm(mod, "rpc", sr_str_hash(e.xpath))
                fin(X) == [Did(unlink(X, name), "free", name) EXCEPT
                                    !.subs.rpc_subs[i].xfreed = TRUE,
                                    !.subs.rpc_subs[i].sub_shm = sr_shm_clear(@)]
            IN  {DelAllEnd(M, "return", "SR_ERR_INTERNAL")}
                \cup UNION {
                       IF r.ok
                       THEN {DelAllEnd(r.M, "return", "SR_ERR_NOMEM")}
                            \cup del_all_rpc(fin(r.M), i + 1)
                       ELSE del_all_fail(r.M, r.err)
                       : r \in shmmod_del(M, name, FALSE)}

\* sr_subs_del_all, lines 642-672, from group i, entry j on.
del_all_dp(M0, i, j) ==
    LET c == GroupUaf(M0.subs.dp_subs, M0.subs.dp_sub_count, M0.subs.dp_ptr, i, j)
        M == [M0 EXCEPT !.ub = @ \/ c]
    IN  DelAllCrash(c, M0) \cup
        IF ~LtU(i - 1, M.subs.dp_sub_count)
        THEN del_all_rpc([M EXCEPT !.subs.dp_ptr = FreedPtr(@)], 1)
        ELSE IF i > Len(M.subs.dp_subs) \/ M.subs.dp_subs[i].module_name = NULL
        THEN {DelAllEnd(M, "segv", "SR_ERR_OK")}
        ELSE
            LET g == M.subs.dp_subs[i]
            IN  IF j <= Len(g.subs)
                THEN LET name == sr_path_sub_shm(g.module_name, "state",
                                                 sr_str_hash(g.subs[j].xpath))
                         fin(X) == [Did(unlink(X, name), "free", name) EXCEPT
                                             !.subs.dp_subs[i].subs[j].xfreed = TRUE,
                                             !.subs.dp_subs[i].subs[j].sub_shm =
                                                 sr_shm_clear(@)]
                     IN  UNION {
                           IF r.ok
                           THEN {DelAllEnd(r.M, "return", "SR_ERR_NOMEM")}
                                \cup del_all_dp(fin(r.M), i, j + 1)
                           ELSE del_all_fail(r.M, r.err)
                           : r \in shmmod_del(M, name, FALSE)}
                ELSE del_all_dp([Did(M, "free", <<g.module_name>>) EXCEPT
                                          !.subs.dp_subs[i].nfreed = TRUE,
                                          !.subs.dp_subs[i].sfreed = TRUE],
                                i + 1, 1)

\* sr_subs_del_all, lines 608-640, from group i, entry j on.
del_all_conf(M0, i, j) ==
    LET c == GroupUaf(M0.subs.conf_subs, M0.subs.conf_sub_count,
                      M0.subs.conf_ptr, i, j)
        M == [M0 EXCEPT !.ub = @ \/ c]
    IN  DelAllCrash(c, M0) \cup
        IF ~LtU(i - 1, M.subs.conf_sub_count)
        THEN del_all_dp([M EXCEPT !.subs.conf_ptr = FreedPtr(@)], 1, 1)
        ELSE IF i > Len(M.subs.conf_subs) \/ M.subs.conf_subs[i].module_name = NULL
        THEN {DelAllEnd(M, "segv", "SR_ERR_OK")}
        ELSE
            LET g    == M.subs.conf_subs[i]
                name == sr_path_sub_shm(g.module_name, g.ds, MinusOne)
                fin(X) == [Did(X, "free", name) EXCEPT
                                    !.subs.conf_subs[i].nfreed = TRUE,
                                    !.subs.conf_subs[i].sfreed = TRUE,
                                    !.subs.conf_subs[i].sub_shm = sr_shm_clear(@)]
            IN  IF j <= Len(g.subs)
                THEN UNION {
                       IF r.ok
                       THEN del_all_conf(
                              [r.M EXCEPT !.subs.conf_subs[i].subs[j].xfreed =
                                          g.subs[j].xpath # NULL],
                              i, j + 1)
                       ELSE del_all_fail(r.M, r.err)
                       : r \in shmmod_del(M, name, TRUE)}
                ELSE (IF M.lr \in {"yes", "uninit"}
                      THEN {DelAllEnd(M, "return", "SR_ERR_NOMEM")}
                           \cup del_all_conf(fin(unlink(M, name)),
                                             i + 1, 1)
                      ELSE {})
                     \cup (IF M.lr \in {"no", "uninit"}
                           THEN del_all_conf(fin(M), i + 1, 1)
                           ELSE {})

del_all_outcomes ==
    del_all_conf(DelAllState(subs, files, dir, "uninit"), 1, 1)

----------------------------------------------------------------------------
(* steps of the operating thread *)

Entries ==
    SumLen(subs.conf_subs) + SumLen(subs.dp_subs) + Len(subs.rpc_subs)
        + SumLen(subs.notif_subs)

RECURSIVE SumDir(_)
SumDir(N) ==
    IF N = {} THEN 0
    ELSE LET n == CHOOSE x \in N : TRUE IN dir[n] + SumDir(N \ {n})

\* The client asks for a further subscription only below the bound.
MayAdd == Entries < MaxSubs /\ SumDir(DOMAIN dir) < MaxSubs

\* The caller's sr_shmmod_*_subscription around a successful add (dd = 1) or
\* del (dd = -1) of segment name.
DirUpd(d, name, dd) ==
    [d EXCEPT ![name] = IF @ + dd < 0 THEN 0 ELSE @ + dd]

\* A timed lock that expires and is taken for a success.
sr_mlock_m(op, fail, c) ==
    /\ pc = "idle" /\ proc = "running"
    /\ IF subs_lock = "free"
       THEN subs_lock' = "self" /\ pc' = op /\ ret' = ret /\ cur' = c
       ELSE subs_lock' = subs_lock /\ pc' = "idle" /\ ret' = "SR_ERR_OK" /\ cur' = NoCall
    /\ UNCHANGED <<subs, files, proc, dir, others, kinds, rwvars, seg, nm, ev, clk>>

\* sr_mlock(&subs->subs_lock, timeout) at the head of function op called with
\* arguments c: the mutex is taken, or the timed lock expires because it stays
\* held.  fail is what the function then returns.
sr_mlock(op, fail, c) ==
    /\ pc = "idle" /\ proc = "running"
    /\ IF subs_lock = "free"
       THEN subs_lock' = "self" /\ pc' = op /\ ret' = ret /\ cur' = c
       ELSE subs_lock' = subs_lock /\ pc' = "idle" /\ ret' = fail /\ cur' = NoCall
    /\ UNCHANGED <<subs, files, proc, dir, others, kinds, rwvars, seg, nm, ev, clk>>

\* sr_munlock(&subs->subs_lock).
sr_munlock(lock) == "free"

\* A return that unlocks the mutex also for a caller that holds it.
unlock_unless_held_m(has_subs_lock, lock) == sr_munlock(lock)

\* `if (!has_subs_lock) sr_munlock(&subs->subs_lock)` before a return, lines
\* 579-582 and 590-593; the other functions always unlock.
unlock_unless_held(has_subs_lock, lock) ==
    IF has_subs_lock THEN lock ELSE sr_munlock(lock)

\* Where the operating thread is once the call in progress has returned: in
\* the caller that holds the lock (has_subs_lock), or idle.
Returned == IF cur.has_subs_lock THEN "holding" ELSE "idle"

\* The process after a step: an execution that has accessed freed memory and
\* was not stopped by it ("ub") is not followed further.
After(ub) == IF ub THEN "ub" ELSE proc

\* The step from SUBS LOCK to the return or to the code after error_unlock's
\* sr_munlock, for one outcome o of the body run with arguments a; on success
\* the caller's record of segment name in the main SHM changes by dd.  A
\* crash leaves the call in progress.
Leave(o, void, a, name, dd) ==
    /\ subs' = o.subs /\ files' = o.files
    /\ UNCHANGED <<others, kinds, rwvars, seg, nm, ev, clk>>
    /\ dir' = IF o.goto = "ok" THEN DirUpd(dir, name, dd) ELSE dir
    /\ \/ /\ o.goto = "ok"
          /\ subs_lock' = unlock_unless_held(cur.has_subs_lock, subs_lock)
          /\ pc' = Returned /\ cur' = NoCall /\ proc' = After(o.ub)
          /\ ret' = IF void THEN "void" ELSE "SR_ERR_OK"
       \/ /\ o.goto = "error_unlock"
          /\ subs_lock' = sr_munlock(subs_lock)
          /\ pc' = "error_unlock" /\ proc' = After(o.ub) /\ ret' = ret
          /\ cur' = [NoCall EXCEPT !.op = pc, !.mem = o.mem, !.grp = o.grp,
                                   !.err = o.err, !.pre = subs]
       \/ /\ o.goto = "ret_locked"
          /\ pc' = "idle" /\ cur' = NoCall /\ ret' = o.err
          /\ proc' = After(o.ub) /\ UNCHANGED subs_lock
       \/ /\ o.goto = "assert"
          /\ proc' = "abort" /\ cur' = [a EXCEPT !.op = pc]
          /\ UNCHANGED <<subs_lock, pc, ret>>
       \/ /\ o.goto = "segv"
          /\ proc' = "segv" /\ cur' = [a EXCEPT !.op = pc]
          /\ UNCHANGED <<subs_lock, pc, ret>>

\* The end of an add function after error_unlock's sr_munlock: the frees and
\* writes of the label give registry S, or, where they touch freed memory
\* (ub), may crash.
Rollback(op, S, ub) ==
    /\ pc = "error_unlock" /\ cur.op = op /\ proc = "running"
    /\ UNCHANGED <<files, subs_lock, dir, others, kinds, rwvars, seg, nm, ev, clk>>
    /\ \/ /\ subs' = S
          /\ pc' = "idle" /\ cur' = NoCall /\ ret' = cur.err /\ proc' = After(ub)
       \/ /\ ub
          /\ proc' = "segv" /\ UNCHANGED <<subs, pc, cur, ret>>

ConfArgs(V) ==
    {[NoCall EXCEPT !.mod_name = k[1], !.ds = k[2], !.xpath = v[1], !.priority = v[2],
                    !.cb = "cb1"] : k \in ConfKeys, v \in V}

DpArgs ==
    {[NoCall EXCEPT !.mod_name = v[1], !.xpath = v[2], !.cb = "cb1"] : v \in DpSubs}

RpcArgs(V) ==
    {[NoCall EXCEPT !.mod_name = sr_get_first_ns(v[1]), !.xpath = v[1], !.cb = v[2],
                    !.tree_cb = v[3]] : v \in V}

NotifArgs ==
    {[NoCall EXCEPT !.mod_name = v[1], !.xpath = v[2], !.cb = "cb1"] : v \in NotifSubs}

sr_sub_conf_add ==
    \/ /\ "conf" \in kinds /\ MayAdd
       /\ sr_mlock("sr_sub_conf_add", "SR_ERR_TIME_OUT", NoCall)
    \/ /\ pc = "sr_sub_conf_add" /\ proc = "running"
       /\ \E a \in ConfArgs(ConfSubs) : \E o \in conf_add_outcomes(a) :
              Leave(o, FALSE, a, sr_path_sub_shm(a.mod_name, a.ds, MinusOne), 1)
    \/ Rollback("sr_sub_conf_add", conf_add_rollback(subs, cur.mem, cur.grp), cur.mem[1])

sr_sub_conf_del ==
    \/ /\ "conf" \in kinds
       /\ sr_mlock("sr_sub_conf_del", "void", NoCall)
    \/ /\ pc = "sr_sub_conf_del" /\ proc = "running"
       /\ \E a \in ConfArgs(ConfSubs \cup ConfDelOnly) : \E o \in conf_del_outcomes(a) :
              Leave(o, TRUE, a, sr_path_sub_shm(a.mod_name, a.ds, MinusOne), -1)

sr_sub_dp_add ==
    \/ /\ "dp" \in kinds /\ MayAdd
       /\ sr_mlock("sr_sub_dp_add", "SR_ERR_TIME_OUT", NoCall)
    \/ /\ pc = "sr_sub_dp_add" /\ proc = "running"
       /\ \E a \in DpArgs : \E o \in dp_add_outcomes(a) :
              Leave(o, FALSE, a,
                    sr_path_sub_shm(a.mod_name, "state", sr_str_hash(a.xpath)), 1)
    \/ Rollback("sr_sub_dp_add", dp_add_rollback(subs, cur.mem, cur.grp), FALSE)

sr_sub_dp_del ==
    \/ /\ "dp" \in kinds
       /\ sr_mlock("sr_sub_dp_del", "void", NoCall)
    \/ /\ pc = "sr_sub_dp_del" /\ proc = "running"
       /\ \E a \in DpArgs : \E o \in dp_del_outcomes(a) :
              Leave(o, TRUE, a,
                    sr_path_sub_shm(a.mod_name, "state", sr_str_hash(a.xpath)), -1)

\* An assert that accepts a call with both callbacks.
rpc_add_assert_m(c) ==
    c.mod_name # NULL /\ c.xpath # NULL /\ (c.cb # NULL \/ c.tree_cb # NULL)

\* The assert of line 344 on the arguments c.
rpc_add_assert(c) ==
    c.mod_name # NULL /\ c.xpath # NULL /\ (c.cb # NULL \/ c.tree_cb # NULL)
        /\ (c.cb = NULL \/ c.tree_cb = NULL)

sr_sub_rpc_add ==
    \/ /\ "rpc" \in kinds /\ MayAdd
       /\ \E c \in RpcArgs(RpcSubs \cup RpcBad) :
            \/ /\ rpc_add_assert(c)
               /\ sr_mlock("sr_sub_rpc_add", "SR_ERR_TIME_OUT", c)
            \/ /\ ~rpc_add_assert(c)
               /\ pc = "idle" /\ proc = "running"
               /\ proc' = "abort" /\ cur' = [c EXCEPT !.op = "sr_sub_rpc_add"]
               /\ UNCHANGED <<subs, subs_lock, files, pc, ret, dir, others, kinds, rwvars, seg, nm, ev, clk>>
    \/ /\ pc = "sr_sub_rpc_add" /\ proc = "running"
       /\ \E o \in rpc_add_outcomes(cur) :
              Leave(o, FALSE, cur,
                    sr_path_sub_shm(cur.mod_name, "rpc", sr_str_hash(cur.xpath)), 1)
    \/ Rollback("sr_sub_rpc_add", subs, FALSE)

sr_sub_rpc_del ==
    \/ /\ "rpc" \in kinds
       /\ sr_mlock("sr_sub_rpc_del", "void", NoCall)
    \/ /\ pc = "sr_sub_rpc_del" /\ proc = "running"
       /\ \E a \in RpcArgs(RpcSubs) : \E o \in rpc_del_outcomes(a) :
              Leave(o, TRUE, a,
                    sr_path_sub_shm(a.mod_name, "rpc", sr_str_hash(a.xpath)), -1)

sr_sub_notif_add ==
    \/ /\ "notif" \in kinds /\ MayAdd
       /\ sr_mlock("sr_sub_notif_add", "SR_ERR_TIME_OUT", NoCall)
    \/ /\ pc = "sr_sub_notif_add" /\ proc = "running"
       /\ \E a \in NotifArgs : \E o \in notif_add_outcomes(a) :
              Leave(o, FALSE, a, sr_path_sub_shm(a.mod_name, "notif", MinusOne), 1)
    \/ Rollback("sr_sub_notif_add", notif_add_rollback(subs, cur.mem, cur.grp),
                cur.mem[2])

sr_sub_notif_del ==
    \/ /\ "notif" \in kinds
       /\ sr_mlock("sr_sub_notif_del", "void", NoCall)
    \/ /\ "notif" \in kinds
       /\ pc = "holding" /\ proc = "running"
       /\ pc' = "sr_sub_notif_del"
       /\ cur' = [NoCall EXCEPT !.has_subs_lock = TRUE]
       /\ UNCHANGED <<subs, subs_lock, files, ret, proc, dir, others, kinds, rwvars, seg, nm, ev, clk>>
    \/ /\ pc = "sr_sub_notif_del" /\ proc = "running"
       /\ \E a \in NotifArgs : \E o \in notif_del_outcomes(a) :
              Leave(o, TRUE, a, sr_path_sub_shm(a.mod_name, "notif", MinusOne), -1)

\* A caller of sr_sub_notif_del(..., has_subs_lock = 1) takes subs->subs_lock
\* itself before the call and releases it after.
caller_lock ==
    /\ "notif" \in kinds /\ proc = "running"
    /\ \/ pc = "idle" /\ subs_lock = "free" /\ pc' = "holding" /\ subs_lock' = "self"
       \/ pc = "holding" /\ pc' = "idle" /\ subs_lock' = "free"
    /\ UNCHANGED <<subs, files, cur, ret, proc, dir, others, kinds, rwvars, seg, nm, ev, clk>>

\* sr_subs_del_all: no lock is taken.  Its caller frees the handle once it
\* has returned without error ("unsubscribed"): no call on the handle follows.
sr_subs_del_all ==
    /\ pc = "idle" /\ proc = "running"
    /\ \E o \in del_all_outcomes :
         /\ subs' = o.subs /\ files' = o.files /\ dir' = o.dir
         /\ cur' = [NoCall EXCEPT !.op = "sr_subs_del_all", !.pre = subs,
                                  !.log = o.log]
         /\ \/ /\ o.goto = "return"
               /\ ret' = o.err /\ proc' = After(o.ub)
               /\ pc' = IF o.err = "SR_ERR_OK" THEN "unsubscribed" ELSE pc
            \/ /\ o.goto = "segv"
               /\ ret' = ret /\ proc' = "segv" /\ pc' = pc
    /\ UNCHANGED <<subs_lock, others, kinds, rwvars, seg, nm, ev, clk>>

\* Another thread of the process takes and releases subs->subs_lock.
other_thread ==
    /\ proc = "running"
    /\ \/ subs_lock = "free" /\ subs_lock' = "other"
       \/ subs_lock = "other" /\ subs_lock' = "free"
    /\ UNCHANGED <<subs, files, pc, cur, ret, proc, dir, others, kinds, rwvars, seg, nm, ev, clk>>

----------------------------------------------------------------------------
(* sr_rwlock and sr_rwunlock *)

Threads == 1..NThreads

\* A thread outside sr_rwlock/sr_rwunlock that holds nothing.
IdleThread ==
    [pc |-> "idle", wr |-> FALSE, ret |-> "0", tmp |-> 0, sig |-> FALSE, err |-> "none"]

\* pthread_mutex_unlock(&rwlock->mutex) by thread t: the mutex m is released.
\* On a mutex t does not own the call is undefined: it releases the mutex of
\* its owner, or has no effect.
MutexUnlock(m, t) == IF m = t THEN {0} ELSE {0, m}

\* A lock whose readers, too, wait until the reader counter is zero.
NeedsWait_m(wr, r, readers) == r = "0" /\ readers # 0

\* The test of the loop of line 1759 for a call in mode wr.
NeedsWait(wr, r, readers) == wr /\ r = "0" /\ readers # 0

\* pthread_cond_broadcast(&rwlock->cond): every thread waiting on it is woken.
Broadcast(T) ==
    [t \in Threads |-> IF T[t].pc = "cond_wait" THEN [T[t] EXCEPT !.sig = TRUE] ELSE T[t]]

\* sr_rwlock, lines 1747-1754: the timed lock of the mutex by thread t for a
\* call in mode wr.  It expires only while another thread holds the mutex.
rwlock_mutex(t, wr) ==
    /\ thr[t].pc = "idle"
    /\ wr \/ rwlock.readers < MaxReaders
    /\ \/ /\ rwlock.mutex = 0
          /\ rwlock' = [rwlock EXCEPT !.mutex = t]
          /\ thr' = [thr EXCEPT ![t] = [IdleThread EXCEPT !.pc = "locked", !.wr = wr]]
       \/ /\ rwlock.mutex # 0
          /\ thr' = [thr EXCEPT ![t] = [IdleThread EXCEPT !.err = "SR_ERRINFO_LOCK"]]
          /\ UNCHANGED rwlock

\* A timed-out writer that returns without unlocking the mutex.
rwlock_cond_fail_m(t) ==
    /\ UNCHANGED rwlock
    /\ thr' = [thr EXCEPT ![t] = [IdleThread EXCEPT !.err = "SR_ERRINFO_COND"]]

\* sr_rwlock, lines 1764-1770: the wait of writer t timed out; the mutex is
\* unlocked and the error of SR_ERRINFO_COND returned.
rwlock_cond_fail(t) ==
    /\ \E m \in MutexUnlock(rwlock.mutex, t) :
           rwlock' = [rwlock EXCEPT !.mutex = m]
    /\ thr' = [thr EXCEPT ![t] = [IdleThread EXCEPT !.err = "SR_ERRINFO_COND"]]

\* sr_rwlock, lines 1756-1779, with the mutex locked: a writer that finds
\* readers goes on to wait on the condition, gives up after a timed-out
\* wait, or returns holding the mutex; a reader counts itself and unlocks.
rwlock_locked(t) ==
    /\ thr[t].pc = "locked"
    /\ IF NeedsWait(thr[t].wr, thr[t].ret, rwlock.readers)
       THEN /\ thr' = [thr EXCEPT ![t].pc = "to_wait"]
            /\ UNCHANGED rwlock
       ELSE IF thr[t].wr
       THEN IF thr[t].ret # "0"
            THEN rwlock_cond_fail(t)
            ELSE /\ thr' = [thr EXCEPT ![t].pc = "write", ![t].err = "SR_ERR_OK"]
                 /\ UNCHANGED rwlock
       ELSE /\ \E m \in MutexUnlock(rwlock.mutex, t) :
                   rwlock' = [rwlock EXCEPT !.readers = @ + 1, !.mutex = m]
            /\ thr' = [thr EXCEPT ![t].pc = "read", ![t].err = "SR_ERR_OK"]

\* The call of pthread_cond_timedwait of line 1761 by writer t, which has
\* found readers: the mutex is released and the thread blocks, in one step.
\* The counter was read under the mutex, but a read release that goes on
\* without the mutex may have changed it and broadcast since.
rwlock_wait(t) ==
    /\ thr[t].pc = "to_wait"
    /\ \E m \in MutexUnlock(rwlock.mutex, t) :
           rwlock' = [rwlock EXCEPT !.mutex = m]
    /\ thr' = [thr EXCEPT ![t].pc = "cond_wait", ![t].sig = FALSE]

\* pthread_cond_timedwait of line 1761 returns to thread t: it was woken by a
\* broadcast or its timeout expired, and it has the mutex again.
rwlock_wake(t) ==
    /\ thr[t].pc = "cond_wait"
    /\ rwlock.mutex = 0
    /\ rwlock' = [rwlock EXCEPT !.mutex = t]
    /\ \/ /\ thr[t].sig
          /\ thr' = [thr EXCEPT ![t].pc = "locked", ![t].sig = FALSE]
       \/ thr' = [thr EXCEPT ![t].pc = "locked", ![t].sig = FALSE,
                             ![t].ret = "ETIMEDOUT"]

sr_rwlock ==
    /\ UNCHANGED <<regvars, seg, nm, ev, clk>>
    /\ \E t \in Threads :
         \/ \E wr \in BOOLEAN : rwlock_mutex(t, wr)
         \/ rwlock_locked(t)
         \/ rwlock_wait(t)
         \/ rwlock_wake(t)

\* sr_rwunlock with wr = 1, lines 1808-1817, by the thread holding the write
\* lock: a failed assert stops the thread's process (the mutex stays locked).
rwunlock_wr(t) ==
    /\ thr[t].pc = "write"
    /\ \/ /\ rwlock.readers # 0
          /\ thr' = [thr EXCEPT ![t].pc = "abort"]
          /\ UNCHANGED rwlock
       \/ /\ rwlock.readers = 0
          /\ \E m \in MutexUnlock(rwlock.mutex, t) :
                 rwlock' = [rwlock EXCEPT !.mutex = m]
          /\ thr' = [Broadcast(thr) EXCEPT ![t] = IdleThread]

\* sr_rwunlock with wr = 0, lines 1790-1797, by a thread holding a read lock:
\* the timed lock of the mutex is had, or expires, which the code only logs.
rwunlock_mutex(t) ==
    /\ thr[t].pc = "read"
    /\ \/ /\ rwlock.mutex = 0
          /\ rwlock' = [rwlock EXCEPT !.mutex = t]
          /\ thr' = [thr EXCEPT ![t].pc = "unl_locked"]
       \/ /\ rwlock.mutex # 0
          /\ thr' = [thr EXCEPT ![t].pc = "unl_nolock"]
          /\ UNCHANGED rwlock

\* sr_rwunlock, lines 1799-1817, with the mutex locked.
rwunlock_locked(t) ==
    /\ thr[t].pc = "unl_locked"
    /\ LET n == IF rwlock.readers = 0 THEN 0 ELSE rwlock.readers - 1
       IN  /\ \E m \in MutexUnlock(rwlock.mutex, t) :
                  rwlock' = [rwlock EXCEPT !.readers = n, !.mutex = m]
           /\ thr' = [IF n = 0 THEN Broadcast(thr) ELSE thr EXCEPT ![t] = IdleThread]

\* sr_rwunlock, lines 1799-1805, without the mutex: the counter is read, and
\* written back one less in a later step, unprotected.
rwunlock_load(t) ==
    /\ thr[t].pc = "unl_nolock"
    /\ thr' = [thr EXCEPT ![t].pc = "unl_store", ![t].tmp = rwlock.readers]
    /\ UNCHANGED rwlock

\* sr_rwunlock, lines 1804-1817, without the mutex: the store of the counter,
\* the broadcast, and the unlock of a mutex the thread does not own.
rwunlock_store(t) ==
    /\ thr[t].pc = "unl_store"
    /\ LET n == IF thr[t].tmp = 0 THEN rwlock.readers ELSE thr[t].tmp - 1
       IN  /\ \E m \in MutexUnlock(rwlock.mutex, t) :
                  rwlock' = [rwlock EXCEPT !.readers = n, !.mutex = m]
           /\ thr' = [IF n = 0 THEN Broadcast(thr) ELSE thr EXCEPT ![t] = IdleThread]

sr_rwunlock ==
    /\ UNCHANGED <<regvars, seg, nm, ev, clk>>
    /\ \E t \in Threads :
         \/ rwunlock_wr(t)
         \/ rwunlock_mutex(t)
         \/ rwunlock_locked(t)
         \/ rwunlock_load(t)
         \/ rwunlock_store(t)

----------------------------------------------------------------------------
(* calls on one sr_shm_t *)

\* No call on the segment yet.
NoSegCall ==
    [op |-> "none", new |-> 0, pre |-> ClosedShm, prefs |-> 0, sys |-> <<>>,
     err |-> "SR_ERR_OK", prev |-> "none", prevsys |-> <<>>]

\* open() of the file of the segment by its owner: the descriptor of a closed
\* sr_shm_t is set.
shm_open ==
    /\ seg.shm.fd = -1
    /\ seg' = [seg EXCEPT !.shm.fd = 3, !.call = [NoSegCall EXCEPT !.op = "open"]]
    /\ UNCHANGED <<regvars, rwvars, nm, ev, clk>>

\* Another process that has the file open changes its size.
shm_resized ==
    /\ \E fs \in Sizes \ {seg.fsize} :
          seg' = [seg EXCEPT !.fsize = fs, !.call = [NoSegCall EXCEPT !.op = "resized"]]
    /\ UNCHANGED <<regvars, rwvars, nm, ev, clk>>

\* A call of sr_shm_remap on the segment.
shm_remap ==
    /\ \E new \in Sizes, bad \in {"none", "fstat", "ftruncate", "mmap"} :
          LET r == sr_shm_remap(seg.shm, new, seg.fsize, bad)
          IN  seg' = [shm |-> r.shm, fsize |-> r.fsize,
                      call |-> [NoSegCall EXCEPT !.op = "sr_shm_remap", !.new = new,
                                                 !.pre = seg.shm, !.prefs = seg.fsize,
                                                 !.sys = r.sys, !.err = r.err]]
    /\ UNCHANGED <<regvars, rwvars, nm, ev, clk>>

\* A call of sr_shm_clear on the segment; prev and prevsys tell the call
\* before it.
shm_clear ==
    /\ seg' = [seg EXCEPT !.shm = sr_shm_clear(seg.shm),
                          !.call = [NoSegCall EXCEPT !.op = "sr_shm_clear",
                                                     !.pre = seg.shm, !.prefs = seg.fsize,
                                                     !.sys = shm_clear_sys(seg.shm),
                                                     !.prev = seg.call.op,
                                                     !.prevsys = seg.call.sys]]
    /\ UNCHANGED <<regvars, rwvars, nm, ev, clk>>

----------------------------------------------------------------------------
(* configuration change events *)

\* The (xpath, priority) pairs of the subscriptions of the group that events
\* are delivered to, and the arguments of the calls that make and delete them.
PrioSubs == {"/m1:a", "/m1:b", "/m2:c"} \X {5, 10, 20}

PrioArgs ==
    {[NoCall EXCEPT !.mod_name = "m1", !.ds = "running", !.xpath = v[1],
                    !.priority = v[2], !.cb = "cb1"] : v \in PrioSubs}

\* No event delivered yet.  Of the last event: the entries that were sent
\* CHANGE, in order, the position in it of the one that failed (0: none), and
\* the entries that were sent ABORT, in order.  ins lists the entries the
\* group holds in the order their subscriptions were made.
NoEvent == [op |-> "none", ins |-> <<>>, change |-> <<>>, failed |-> 0, abort |-> <<>>]

Reverse(s) == [k \in 1..Len(s) |-> s[Len(s) + 1 - k]]

\* A call of sr_sub_conf_add that succeeds, from SUBS LOCK to SUBS UNLOCK,
\* for a subscription the group does not hold.
conf_add_ok ==
    /\ pc = "idle" /\ proc = "running" /\ subs_lock = "free"
    /\ Entries < MaxPrioSubs
    /\ \E a \in PrioArgs :
         /\ \A k \in 1..Len(ev.ins) : ev.ins[k] # ConfEntry(a)
         /\ \E o \in conf_add_outcomes(a) :
              /\ o.goto = "ok" /\ ~o.ub
              /\ subs' = o.subs /\ files' = o.files
              /\ dir' = DirUpd(dir, sr_path_sub_shm(a.mod_name, a.ds, MinusOne), 1)
              /\ ev' = [NoEvent EXCEPT !.op = "add", !.ins = Append(ev.ins, ConfEntry(a))]
    /\ ret' = "SR_ERR_OK"
    /\ UNCHANGED <<subs_lock, pc, cur, proc, others, kinds, rwvars, seg, nm, clk>>

\* A call of sr_sub_conf_del that returns, from SUBS LOCK to SUBS UNLOCK.
conf_del_ok ==
    /\ pc = "idle" /\ proc = "running" /\ subs_lock = "free"
    /\ \E a \in PrioArgs : \E o \in conf_del_outcomes(a) :
         /\ o.goto = "ok" /\ ~o.ub
         /\ subs' = o.subs /\ files' = o.files
         /\ dir' = DirUpd(dir, sr_path_sub_shm(a.mod_name, a.ds, MinusOne), -1)
         /\ ev' = [NoEvent EXCEPT
                      !.op = "del",
                      !.ins = SelectSeq(ev.ins, LAMBDA e : e # ConfEntry(a))]
    /\ ret' = "void"
    /\ UNCHANGED <<subs_lock, pc, cur, proc, others, kinds, rwvars, seg, nm, clk>>

\* The entries of a list in the order of delivery: ascending priority,
\* entries of equal priority in the order of the list.  done are the
\* positions already delivered to.
RECURSIVE ByPriority(_, _)
ByPriority(list, done) ==
    IF done = DOMAIN list THEN <<>>
    ELSE LET rest == DOMAIN list \ done
             k    == CHOOSE i \in rest : \A j \in rest :
                        \/ list[i].priority < list[j].priority
                        \/ list[i].priority = list[j].priority /\ i <= j
         IN  <<list[k]>> \o ByPriority(list, done \cup {k})

\* A configuration change is delivered to a group of the handle: CHANGE to
\* its entries in the order of delivery up to the one whose callback fails,
\* if one does, and then ABORT to the entries that were sent CHANGE, last
\* first.
conf_change ==
    /\ pc = "idle" /\ proc = "running"
    /\ \E g \in 1..Len(subs.conf_subs) :
         LET order == ByPriority(subs.conf_subs[g].subs, {})
         IN  \E f \in 0..Len(order) :
                LET told == IF f = 0 THEN order ELSE SubSeq(order, 1, f)
                IN  ev' = [ev EXCEPT !.op = "change", !.change = told, !.failed = f,
                                     !.abort = IF f = 0 THEN <<>> ELSE Reverse(told)]
    /\ UNCHANGED <<regvars, rwvars, seg, nm, clk>>

----------------------------------------------------------------------------
(* calls of sr_str_hash and sr_path_sub_shm on their own *)

\* No call yet, in a build whose char is signed (sgn) or unsigned.
NoNameCall(sgn) ==
    [op |-> "none", sgn |-> sgn, bytes |-> <<>>, hash |-> Word(0, 0), mod |-> NULL,
     kind |-> NULL, suffix1 |-> NULL, suffix2 |-> MinusOne, path |-> <<>>]

\* A call of sr_str_hash with one of the strings.
str_hash_call ==
    /\ \E b \in Strs :
          nm' = [NoNameCall(nm.sgn) EXCEPT !.op = "sr_str_hash", !.bytes = b,
                                           !.hash = str_hash(b, nm.sgn)]
    /\ UNCHANGED <<regvars, rwvars, seg, ev, clk>>

\* A call of sr_path_sub_shm as the code of a kind of subscription makes it
\* for a module, a datastore and an xpath.
path_sub_shm_call ==
    /\ \E mod \in {"m1", "m2"}, kind \in {"conf", "dp", "rpc", "notif"},
          ds \in {"running", "startup"}, b \in Strs :
          LET s1 == KindSuffix1(kind, ds)
              s2 == KindSuffix2(kind, b, nm.sgn)
          IN  nm' = [NoNameCall(nm.sgn) EXCEPT
                        !.op = "sr_path_sub_shm", !.bytes = b, !.mod = mod,
                        !.kind = kind, !.suffix1 = s1, !.suffix2 = s2,
                        !.path = sr_path_sub_shm(mod, s1, s2)]
    /\ UNCHANGED <<regvars, rwvars, seg, ev, clk>>

----------------------------------------------------------------------------
(* sr_time_get and sr_msleep *)

\* a / 1000 and a % 1000 for a uint32_t a given by its halves.
WDiv1000(a) == (a.hi * 65) + (((a.hi * 536) + a.lo) \div 1000)

WMod1000(a) == ((a.hi * 536) + a.lo) % 1000

\* sr_time_get, lines 1513-1516, on the time ts that clock_gettime stored
\* (clock_gettime(CLOCK_REALTIME) on a valid pointer does not fail): add_ms
\* is a uint32_t and the sum of line 1513 is taken modulo 2^32.
sr_time_get(ts, add_ms) ==
    LET sum  == WAdd(add_ms, Word(0, ts.tv_nsec \div 1000000))
        nsec == ts.tv_nsec % 1000000
    IN  [tv_sec  |-> ts.tv_sec + WDiv1000(sum),
         tv_nsec |-> nsec + (WMod1000(sum) * 1000000)]

\* The times clock_gettime stores: tv_sec, and tv_nsec below 10^9.
NowVals ==
    [tv_sec : 0..MaxSec,
     tv_nsec : {0, 1, 999999, 1000000, 1999999, 500000000, 999000000, 999999999}]

\* The values of add_ms of the calls: 0, 1, 999, 1000, 1001, 65536, 2^31,
\* 2^32 - 1000 and 2^32 - 1.
AddMs ==
    {Word(0, 0), Word(0, 1), Word(0, 999), Word(0, 1000), Word(0, 1001), Word(1, 0),
     Word(32768, 0), Word(65535, 64536), Word(65535, 65535)}

\* No call of sr_time_get yet, and no sr_msleep in progress.  Of sr_msleep:
\* its position, the time left in ts, the number of calls of nanosleep that
\* failed, ret and errno after the loop test, the errno the last failed
\* nanosleep had set (fail), and what the function returned.
NoClock ==
    [op |-> "none", now |-> [tv_sec |-> 0, tv_nsec |-> 0], add_ms |-> Word(0, 0),
     ts |-> [tv_sec |-> 0, tv_nsec |-> 0],
     pc |-> "idle", msec |-> 0, left |-> [tv_sec |-> 0, tv_nsec |-> 0], tries |-> 0,
     ret |-> 0, errno |-> "none", fail |-> "none", err |-> "none"]

\* A call of sr_time_get at time now.
time_get_call ==
    /\ clk.pc = "idle"
    /\ \E now \in NowVals, add \in AddMs :
          clk' = [NoClock EXCEPT !.op = "sr_time_get", !.now = now, !.add_ms = add,
                                 !.ts = sr_time_get(now, add)]
    /\ UNCHANGED <<regvars, rwvars, seg, nm, ev>>

\* sr_msleep, lines 1960-1962: ts is set from msec.
msleep_call ==
    /\ clk.pc = "idle"
    /\ \E msec \in {0, 1, 1500} :
          clk' = [NoClock EXCEPT !.op = "sr_msleep", !.pc = "nanosleep", !.msec = msec,
                                 !.left = [tv_sec  |-> msec \div 1000,
                                           tv_nsec |-> (msec % 1000) * 1000000]]
    /\ UNCHANGED <<regvars, rwvars, seg, nm, ev>>

\* The loop test of line 1966 on what nanosleep returned and set:
\* `(ret == -1) && (errno = EINTR)` stores EINTR in errno, and EINTR is not 0.
msleep_again(r, e) ==
    [again |-> r = -1, errno |-> IF r = -1 THEN "EINTR" ELSE e]

\* sr_msleep, lines 1964-1973: one pass of the loop.  nanosleep sleeps the
\* time left and returns 0, or is interrupted by a signal (EINTR, the time
\* left is stored in ts), or fails with another error; the loop test
\* follows, and after the loop the return.
msleep_nanosleep ==
    /\ clk.pc = "nanosleep"
    /\ \E out \in {"slept", "EINTR", "EINVAL"} :
          LET r == IF out = "slept" THEN 0 ELSE -1
              t == msleep_again(r, IF out = "slept" THEN clk.errno ELSE out)
          IN  /\ out # "slept" => clk.tries < MaxTries
              /\ clk' = IF t.again
                        THEN [clk EXCEPT !.ret = r, !.errno = t.errno, !.fail = out,
                                         !.tries = @ + 1]
                        ELSE [clk EXCEPT !.ret = r, !.errno = t.errno, !.pc = "idle",
                                         !.err = IF r = -1 THEN "SR_ERR_SYS"
                                                 ELSE "SR_ERR_OK"]
    /\ UNCHANGED <<regvars, rwvars, seg, nm, ev>>

----------------------------------------------------------------------------
(* specifications *)

\* sr_rwlock_init, lines 1715-1729.
sr_rwlock_init == [mutex |-> 0, readers |-> 0]

InitReg ==
    /\ subs = EmptySubs
    /\ subs_lock = "free"
    /\ files = {}
    /\ pc = "idle"
    /\ cur = NoCall
    /\ ret = "none"
    /\ proc = "running"
    /\ dir = [n \in AllNames |-> 0]

InitRW ==
    /\ rwlock = sr_rwlock_init
    /\ thr = [t \in Threads |-> IdleThread]

\* A closed sr_shm_t (memset 0, fd = -1) on a file of size fs.
InitSeg(fs) == seg = [shm |-> ClosedShm, fsize |-> fs, call |-> NoSegCall]

\* No call of the string functions and no event yet.
InitRest ==
    /\ nm = NoNameCall(TRUE)
    /\ ev = NoEvent
    /\ clk = NoClock

\* The subscription registry of one handle.
Init ==
    /\ InitReg
    /\ \E sc \in Scenarios : kinds = sc[1] /\ others = sc[2]
    /\ InitRW
    /\ InitSeg(0)
    /\ InitRest

Next ==
    \/ sr_sub_conf_add
    \/ sr_sub_conf_del
    \/ sr_sub_dp_add
    \/ sr_sub_dp_del
    \/ sr_sub_rpc_add
    \/ sr_sub_rpc_del
    \/ sr_sub_notif_add
    \/ sr_sub_notif_del
    \/ caller_lock
    \/ sr_subs_del_all
    \/ other_thread

Spec == Init /\ [][Next]_vars

\* The threads on one sr_rwlock_t.
InitLock ==
    /\ InitReg
    /\ kinds = {} /\ others = {}
    /\ InitRW
    /\ InitSeg(0)
    /\ InitRest

NextRW ==
    \/ sr_rwlock
    \/ sr_rwunlock

SpecRW == InitLock /\ [][NextRW]_vars

\* The calls on one sr_shm_t.
InitShm ==
    /\ InitReg
    /\ kinds = {} /\ others = {}
    /\ InitRW
    /\ \E fs \in Sizes : InitSeg(fs)
    /\ InitRest

NextShm ==
    \/ shm_open
    \/ shm_resized
    \/ shm_remap
    \/ shm_clear

SpecShm == InitShm /\ [][NextShm]_vars

\* The string functions, in a build with char signed and one with char
\* unsigned.
InitNames ==
    /\ InitReg
    /\ kinds = {} /\ others = {}
    /\ InitRW
    /\ InitSeg(0)
    /\ \E sgn \in BOOLEAN : nm = NoNameCall(sgn)
    /\ ev = NoEvent
    /\ clk = NoClock

NextNames ==
    \/ str_hash_call
    \/ path_sub_shm_call

SpecNames == InitNames /\ [][NextNames]_vars

\* Calls of sr_time_get and sr_msleep.
NextTime ==
    \/ time_get_call
    \/ msleep_call
    \/ msleep_nanosleep

SpecTime == InitLock /\ [][NextTime]_vars

\* The configuration subscriptions of one group and the events delivered to
\* them.
NextCommit ==
    \/ conf_add_ok
    \/ conf_del_ok
    \/ conf_change

SpecCommit == InitLock /\ [][NextCommit]_vars

----------------------------------------------------------------------------
(* properties *)

\* The slots of array arr that a loop up to count cnt visits.
Idx(arr, cnt) == {k \in 1..Len(arr) : LtU(k - 1, cnt)}

\* The group count of a kind and the groups reachable through it.
Groups(arr, cnt) == [count |-> cnt, groups |-> {arr[k] : k \in Idx(arr, cnt)}]

\* A group array as a sequence of correct calls leaves it: the count is the
\* number of slots, nothing in it has been freed.
GroupsOk(arr, cnt, ptr) ==
    /\ cnt = Len(arr)
    /\ ptr = (IF cnt = 0 THEN "null" ELSE "live")
    /\ \A k \in 1..Len(arr) :
         /\ ~arr[k].nfreed /\ ~arr[k].sfreed
         /\ \A j \in 1..Len(arr[k].subs) : ~arr[k].subs[j].xfreed

WellFormed(S) ==
    /\ GroupsOk(S.conf_subs, S.conf_sub_count, S.conf_ptr)
    /\ GroupsOk(S.dp_subs, S.dp_sub_count, S.dp_ptr)
    /\ GroupsOk(S.notif_subs, S.notif_sub_count, S.notif_ptr)
    /\ S.rpc_sub_count = Len(S.rpc_subs)
    /\ S.rpc_ptr = (IF S.rpc_sub_count = 0 THEN "null" ELSE "live")
    /\ \A k \in 1..Len(S.rpc_subs) : ~S.rpc_subs[k].xfreed

\* The subscriptions of registry S, each with its kind, its group and the
\* group's segment.
GroupSubs(kind, arr, cnt, Seg(_)) ==
    UNION {{<<kind, arr[k].module_name, Seg(arr[k]), arr[k].subs[j]>> :
              j \in 1..Len(arr[k].subs)} : k \in Idx(arr, cnt)}

LiveSubs(S) ==
    GroupSubs("conf", S.conf_subs, S.conf_sub_count, LAMBDA g : <<g.ds, g.sub_shm>>)
    \cup GroupSubs("dp", S.dp_subs, S.dp_sub_count, LAMBDA g : <<>>)
    \cup GroupSubs("notif", S.notif_subs, S.notif_sub_count, LAMBDA g : <<g.sub_shm>>)
    \cup {<<"rpc", "", <<>>, S.rpc_subs[k]>> : k \in Idx(S.rpc_subs, S.rpc_sub_count)}

\* The segment names of the configuration and notification groups of S.
SegNames(S) ==
    {sr_path_sub_shm(S.conf_subs[k].module_name, S.conf_subs[k].ds, MinusOne) :
       k \in Idx(S.conf_subs, S.conf_sub_count)}
    \cup {sr_path_sub_shm(S.notif_subs[k].module_name, "notif", MinusOne) :
            k \in Idx(S.notif_subs, S.notif_sub_count)}

\* A segment no other process subscribes to.
Exclusive(n) == n[2] \in {"state", "rpc"} \/ n[1] \notin others

DelOps == {"sr_sub_conf_del", "sr_sub_dp_del", "sr_sub_rpc_del", "sr_sub_notif_del"}

\* C1: when sr_sub_conf_add or sr_sub_notif_add has to create a group and
\* opening the group's segment fails (SR_ERR_SYS), the add returns with the
\* group count and the reachable groups of both kinds as the call found them.
C1_FailedOpenLeavesRegistry ==
    [][(/\ pc = "error_unlock"
        /\ cur.op \in {"sr_sub_conf_add", "sr_sub_notif_add"}
        /\ cur.err = "SR_ERR_SYS"
        /\ pc' = "idle")
       => /\ Groups(subs'.conf_subs, subs'.conf_sub_count)
               = Groups(cur.pre.conf_subs, cur.pre.conf_sub_count)
          /\ Groups(subs'.notif_subs, subs'.notif_sub_count)
               = Groups(cur.pre.notif_subs, cur.pre.notif_sub_count)]_vars

\* C2: a delete of any kind that returns on a well-formed registry takes away
\* at most the one subscription deleted: every other subscription is still
\* there with the same fields and the same group segment.
C2_DeleteKeepsOthers ==
    [][(pc \in DelOps /\ pc' # pc /\ WellFormed(subs))
       => Cardinality(LiveSubs(subs) \ LiveSubs(subs')) <= 1]_vars

\* C3: once sr_subs_del_all has returned success, the four group counts are
\* 0, no group array is referenced, and no file of a segment that only this
\* handle subscribed to is left.
C3_DelAllEmptiesRegistry ==
    (pc = "unsubscribed" /\ proc = "running")
    => /\ subs.conf_sub_count = 0 /\ subs.dp_sub_count = 0
       /\ subs.rpc_sub_count = 0 /\ subs.notif_sub_count = 0
       /\ subs.conf_ptr = "null" /\ subs.dp_ptr = "null"
       /\ subs.rpc_ptr = "null" /\ subs.notif_ptr = "null"
       /\ \A n \in files : ~Exclusive(n)

\* C4: when sr_sub_conf_del or sr_sub_notif_del removes the last entry of a
\* group, the group is gone from the registry and, where this was the last
\* subscriber of the segment in the system, so is the segment's file.
C4_LastDeleteUnlinks ==
    [][(/\ pc \in {"sr_sub_conf_del", "sr_sub_notif_del"}
        /\ pc' # pc /\ proc' = "running"
        /\ WellFormed(subs))
       => \A n \in SegNames(subs) \ SegNames(subs') :
            (Exclusive(n) /\ dir'[n] = 0) => n \notin files']_vars

\* C5: sr_sub_conf_del called with a NULL xpath on a well-formed registry
\* does not crash: it compares paths as both NULL or equal.
C5_NullPathDeleteIsSafe ==
    (proc = "segv" /\ cur.op = "sr_sub_conf_del" /\ cur.xpath = NULL)
    => ~WellFormed(subs)

\* C6: after every completed add or delete, failed ones included, each
\* configuration and notification group has entries if and only if its
\* segment is open and mapped.
C6_EntriesIffSegment ==
    (pc = "idle" /\ proc = "running")
    => /\ \A k \in Idx(subs.conf_subs, subs.conf_sub_count) :
            (Len(subs.conf_subs[k].subs) > 0) <=> ShmIsOpen(subs.conf_subs[k].sub_shm)
       /\ \A k \in Idx(subs.notif_subs, subs.notif_sub_count) :
            (Len(subs.notif_subs[k].subs) > 0) <=> ShmIsOpen(subs.notif_subs[k].sub_shm)

\* No two entries of one group of array arr are the same.
NoTwins(arr, cnt) ==
    \A k \in Idx(arr, cnt) :
        \A i, j \in 1..Len(arr[k].subs) : i # j => arr[k].subs[i] # arr[k].subs[j]

\* C7: within one group no two entries have the same identity (module, path,
\* priority, options, callback, private data).
C7_EntryIdentityUnique ==
    proc = "running"
    => /\ NoTwins(subs.conf_subs, subs.conf_sub_count)
       /\ NoTwins(subs.dp_subs, subs.dp_sub_count)
       /\ NoTwins(subs.notif_subs, subs.notif_sub_count)

\* C8: every step that changes the registry (counts, arrays, entry lists) is
\* taken while the operating thread holds subs_lock.
C8_RegistryChangesUnderLock ==
    [][subs' # subs => subs_lock = "self"]_vars

WriteHeld(t) == thr[t].pc = "write"

ReadHeld(t) == thr[t].pc \in {"read", "unl_locked", "unl_nolock", "unl_store"}

\* C9: while a thread holds the rwlock in write mode the reader counter is 0
\* and no other thread holds it in read or write mode.
C9_MutualExclusion ==
    \A t \in Threads :
        WriteHeld(t)
        => /\ rwlock.readers = 0
           /\ \A u \in Threads \ {t} : ~WriteHeld(u) /\ ~ReadHeld(u)

\* C10: a read acquisition that has the mutex never waits for readers: its
\* next step counts it in, whatever the reader counter, and it then holds
\* the lock in read mode together with the readers already there.
C10_ReadersDoNotWait ==
    [][\A t \in Threads :
         (thr[t].pc = "locked" /\ ~thr[t].wr /\ thr'[t] # thr[t])
         => (thr'[t].pc = "read" /\ rwlock'.readers = rwlock.readers + 1)]_vars

\* All the threads hold the lock in read mode at once.
C10_AllReadersHold ==
    /\ \A t \in Threads : thr[t].pc = "read"
    /\ rwlock.readers = NThreads


\* C11: an sr_rwlock call that times out, on the mutex or on the condition
\* wait of a writer, returns an error and leaves the lock as it was: no step
\* of a waiting writer and no timed-out return changes the reader counter,
\* and after a timed-out return the calling thread does not hold the mutex.
C11_TimeoutLeavesLock ==
    [][\A t \in Threads :
          /\ (thr[t].pc \in {"locked", "to_wait", "cond_wait"} /\ thr[t].wr
                  /\ thr'[t].pc # thr[t].pc)
                => rwlock'.readers = rwlock.readers
          /\ (thr[t].pc \in {"idle", "locked"} /\ thr'[t] # thr[t]
                  /\ thr'[t].pc = "idle"
                  /\ thr'[t].err \in {"SR_ERRINFO_LOCK", "SR_ERRINFO_COND"})
                => /\ rwlock'.readers = rwlock.readers
                   /\ rwlock'.mutex # t]_vars

\* A writer whose condition wait timed out has returned while a reader
\* still holds the lock.
C11_WriterTimedOut ==
    \E t, u \in Threads :
        /\ thr[t].pc = "idle" /\ thr[t].err = "SR_ERRINFO_COND"
        /\ thr[u].pc = "read" /\ rwlock.readers = 1 /\ rwlock.mutex = 0

\* What the sr_subs_del_all call that returned last did, in order.
DelAllLog == IF cur.op = "sr_subs_del_all" THEN cur.log ELSE <<>>

\* The positions of the log of the last sr_subs_del_all at which a directory
\* call failed.
FailedAt == {k \in 1..Len(DelAllLog) : DelAllLog[k][1] = "shmmod_failed"}

\* C12: sr_subs_del_all stops at the first directory call that fails: the
\* failed call is the last thing the call did (no directory call, unlink or
\* free follows it), and its error is what the call returned.
C12_DelAllStopsAtFirstError ==
    FailedAt # {} =>
        /\ FailedAt = {Len(DelAllLog)}
        /\ ret = "SR_ERR_NOT_FOUND"
        /\ pc # "unsubscribed" /\ proc # "segv"

\* sr_subs_del_all has returned the error of a directory call that failed
\* after an earlier group was unregistered, unlinked and freed.
C12_FailedMidWay ==
    /\ FailedAt # {}
    /\ \E k \in 1..Len(DelAllLog) : DelAllLog[k][1] = "unlink"
    /\ \E k \in 1..Len(DelAllLog) : DelAllLog[k][1] = "free"

\* No group or entry that registry S lists has been freed.
NoFreedListed(S) ==
    /\ \A k \in Idx(S.conf_subs, S.conf_sub_count) :
         /\ ~S.conf_subs[k].nfreed /\ ~S.conf_subs[k].sfreed
         /\ \A j \in 1..Len(S.conf_subs[k].subs) : ~S.conf_subs[k].subs[j].xfreed
    /\ \A k \in Idx(S.dp_subs, S.dp_sub_count) :
         /\ ~S.dp_subs[k].nfreed /\ ~S.dp_subs[k].sfreed
         /\ \A j \in 1..Len(S.dp_subs[k].subs) : ~S.dp_subs[k].subs[j].xfreed
    /\ \A k \in Idx(S.notif_subs, S.notif_sub_count) :
         /\ ~S.notif_subs[k].nfreed /\ ~S.notif_subs[k].sfreed
         /\ \A j \in 1..Len(S.notif_subs[k].subs) : ~S.notif_subs[k].subs[j].xfreed
    /\ \A k \in Idx(S.rpc_subs, S.rpc_sub_count) : ~S.rpc_subs[k].xfreed

\* C13: when sr_subs_del_all, called on a well-formed registry, fails at a
\* directory call, what it processed before is removed from the registry:
\* the registry it leaves lists no entry or group that it has freed, so that
\* no later call reads or frees them again.
C13_FailedDelAllRemovesPrefix ==
    [][(pc = "idle" /\ cur'.op = "sr_subs_del_all" /\ cur'.pre = subs
          /\ WellFormed(subs)
          /\ \E k \in 1..Len(cur'.log) : cur'.log[k][1] = "shmmod_failed")
       => NoFreedListed(subs')]_vars

\* Every group of registry S has an entry.
NoEmptyGroup(S) ==
    /\ \A k \in 1..Len(S.conf_subs) : Len(S.conf_subs[k].subs) > 0
    /\ \A k \in 1..Len(S.dp_subs) : Len(S.dp_subs[k].subs) > 0
    /\ \A k \in 1..Len(S.notif_subs) : Len(S.notif_subs[k].subs) > 0

\* C14: sr_subs_del_all, called on a well-formed registry without empty
\* groups, unlinks the file of a segment only when the directory call just
\* made for it removed the last subscriber the segment had in the system;
\* this for the four kinds.
C14_OnlyLastRemoverUnlinks ==
    (cur.op = "sr_subs_del_all" /\ WellFormed(cur.pre) /\ NoEmptyGroup(cur.pre))
    => \A k \in 1..Len(cur.log) :
          cur.log[k][1] = "unlink"
          => (k > 1 /\ cur.log[k - 1] = <<"shmmod_last", cur.log[k][2]>>)

\* C15: the assertion of the write release holds whenever it is evaluated: a
\* thread that holds the write lock and calls sr_rwunlock finds the reader
\* counter at 0, so no thread is ever stopped by the assertion.
C15_WriteReleaseAssertHolds ==
    \A t \in Threads :
        /\ thr[t].pc = "write" => rwlock.readers = 0
        /\ thr[t].pc # "abort"

\* Exactly one of the two callback forms of an RPC subscription is given.
ExactlyOne(c) == (c.cb = NULL) # (c.tree_cb = NULL)

\* C16: sr_sub_rpc_add takes the lock only for a call with exactly one of
\* rpc_cb and rpc_tree_cb; a call with both or neither is stopped by the
\* assertion while the lock is not taken and the registry, the files and
\* the directory are as they were.
C16_RpcAddOneCallback ==
    [][/\ pc' = "sr_sub_rpc_add" => ExactlyOne(cur')
       /\ (proc = "running" /\ proc' = "abort" /\ cur'.op = "sr_sub_rpc_add")
            => /\ ~ExactlyOne(cur')
               /\ pc = "idle" /\ pc' = "idle"
               /\ subs_lock' = subs_lock
               /\ subs' = subs /\ files' = files /\ dir' = dir]_vars

\* A call with both callbacks was stopped by the assertion on a handle that
\* holds an RPC subscription.
C16_BothCallbacksAborted ==
    /\ proc = "abort" /\ cur.op = "sr_sub_rpc_add"
    /\ cur.cb # NULL /\ cur.tree_cb # NULL
    /\ subs.rpc_sub_count = 1 /\ Len(subs.rpc_subs) = 1

\* Registry S holds an entry with the full key of the delete call c (c.op
\* names the function): the fields the function compares.
Held(S, c) ==
    IF c.op = "sr_sub_conf_del"
    THEN \E k \in Idx(S.conf_subs, S.conf_sub_count) :
            /\ S.conf_subs[k].module_name = c.mod_name /\ S.conf_subs[k].ds = c.ds
            /\ \E j \in 1..Len(S.conf_subs[k].subs) :
                  LET e == S.conf_subs[k].subs[j]
                  IN  e.xpath = c.xpath /\ e.priority = c.priority /\ e.cb = c.cb
    ELSE IF c.op = "sr_sub_dp_del"
    THEN \E k \in Idx(S.dp_subs, S.dp_sub_count) :
            /\ S.dp_subs[k].module_name = c.mod_name
            /\ \E j \in 1..Len(S.dp_subs[k].subs) : S.dp_subs[k].subs[j].xpath = c.xpath
    ELSE IF c.op = "sr_sub_rpc_del"
    THEN \E k \in Idx(S.rpc_subs, S.rpc_sub_count) : S.rpc_subs[k].xpath = c.xpath
    ELSE \E k \in Idx(S.notif_subs, S.notif_sub_count) :
            /\ S.notif_subs[k].module_name = c.mod_name
            /\ \E j \in 1..Len(S.notif_subs[k].subs) :
                  LET e == S.notif_subs[k].subs[j]
                  IN  e.xpath = c.xpath /\ e.start_time = c.start_time /\ e.cb = c.cb

\* C17: a delete, of any of the four kinds, of a subscription that a
\* well-formed registry does not hold stops at the assertion after the scan,
\* and nowhere before it, with the registry and the files as they were.
C17_DeleteOfUnheldAsserts ==
    [][(pc \in DelOps /\ proc = "running" /\ proc' # "running" /\ WellFormed(subs)
          /\ cur'.op = pc /\ ~Held(subs, cur'))
       => (proc' = "abort" /\ subs' = subs /\ files' = files)]_vars

\* The segment names of the data-provide and RPC subscriptions of S.
PathSegNames(S) ==
    UNION {{sr_path_sub_shm(S.dp_subs[k].module_name, "state",
                            sr_str_hash(S.dp_subs[k].subs[j].xpath)) :
              j \in 1..Len(S.dp_subs[k].subs)} : k \in Idx(S.dp_subs, S.dp_sub_count)}
    \cup {sr_path_sub_shm(sr_get_first_ns(S.rpc_subs[k].xpath), "rpc",
                          sr_str_hash(S.rpc_subs[k].xpath)) :
            k \in Idx(S.rpc_subs, S.rpc_sub_count)}

\* C18: a data-provide or RPC subscription made for a segment that has no
\* subscriber (none yet, or all removed by delete or delete-all: neither the
\* directory nor the registry holds one) observes a fresh segment: when the
\* add opens the segment, no file of that name is left over from a previous
\* subscriber.
C18_ResubscribeSeesFreshSegment ==
    [][\A n \in AllNames :
          (n[2] \in {"state", "rpc"} /\ pc \in {"sr_sub_dp_add", "sr_sub_rpc_add"}
              /\ WellFormed(subs) /\ n \notin PathSegNames(subs)
              /\ dir[n] = 0 /\ dir'[n] = 1)
          => n \notin files]_vars

\* The size the last sr_shm_remap call had to ensure: the requested one, or
\* for a request of 0 the size of the file.
RemapTarget == IF seg.call.new # 0 THEN seg.call.new ELSE seg.call.prefs

\* C19: sr_shm_remap is a no-op, without munmap, ftruncate or mmap, when the
\* requested size (for 0: the file size) is the recorded size; otherwise,
\* when it succeeds, it has unmapped the old mapping if there was one,
\* truncated the file to the requested size if one was given, and mapped
\* the segment, whose recorded size is the new size.
C19_RemapEnsuresSize ==
    seg.call.op = "sr_shm_remap" =>
        LET c == seg.call IN
        /\ RemapTarget = c.pre.size
             => /\ c.sys = <<>>
                /\ seg.shm = c.pre /\ seg.fsize = c.prefs
                /\ c.new # 0 => c.err = "SR_ERR_OK"
        /\ (RemapTarget # c.pre.size /\ c.err = "SR_ERR_OK")
             => /\ c.sys = (IF c.pre.addr # NULL THEN <<"munmap">> ELSE <<>>)
                             \o (IF c.new # 0 THEN <<"ftruncate">> ELSE <<>>)
                             \o <<"mmap">>
                /\ seg.shm.addr = "mapped" /\ seg.shm.size = RemapTarget
                /\ seg.shm.fd = c.pre.fd
                /\ seg.fsize = RemapTarget

\* A mapped segment was remapped to another requested size.
C19_Resized ==
    /\ seg.call.op = "sr_shm_remap" /\ seg.call.err = "SR_ERR_OK"
    /\ seg.call.pre.addr = "mapped" /\ seg.call.new # 0
    /\ seg.call.new # seg.call.pre.size
    /\ seg.shm.size = seg.call.new

\* C20: sr_shm_clear leaves the segment without mapping (addr NULL), without
\* descriptor (fd -1) and with size 0, whatever it was; called on a segment
\* in that state it makes no munmap and no close and leaves the state as it
\* is.
C20_ClearIsIdempotent ==
    seg.call.op = "sr_shm_clear" =>
        /\ seg.shm.addr = NULL /\ seg.shm.fd = -1 /\ seg.shm.size = 0
        /\ seg.call.prev = "sr_shm_clear"
             => (seg.call.sys = <<>> /\ seg.shm = seg.call.pre)

\* sr_shm_clear was called a second time after it closed a mapped segment.
C20_ClearedTwice ==
    /\ seg.call.op = "sr_shm_clear" /\ seg.call.prev = "sr_shm_clear"
    /\ seg.call.prevsys = <<"munmap", "close">>

\* The size of the fixed header struct of a segment (sizeof(sr_multi_sub_shm_t)
\* or sizeof(sr_sub_shm_t), the size the add functions ask for) and the page
\* size, in the unit of Sizes: a header is smaller than a page.
HeaderSize == 1

PageSize == 2 * HeaderSize

\* C21: after any sequence of open and remap operations, the recorded size
\* of an open (mapped) segment is a multiple of the page size and not
\* smaller than the fixed header struct.
C21_SizeIsPageMultiple ==
    ShmIsOpen(seg.shm)
    => /\ seg.shm.size % PageSize = 0
       /\ seg.shm.size >= HeaderSize

\* The Jenkins one-at-a-time hash of a key of bytes, each byte added with its
\* unsigned value, in 32-bit modular arithmetic: the loop from byte i on.
RECURSIVE OneAtATime(_, _, _)
OneAtATime(hash, key, i) ==
    IF i > Len(key) THEN hash
    ELSE LET h1 == WAdd(hash, Word(0, key[i]))
             h2 == WAdd(h1, WShl(h1, 10))
         IN  OneAtATime(WXor(h2, WShr(h2, 6)), key, i + 1)

Jenkins(key) ==
    LET h0 == OneAtATime(Word(0, 0), key, 1)
        h1 == WAdd(h0, WShl(h0, 3))
        h2 == WXor(h1, WShr(h1, 11))
    IN  WAdd(h2, WShl(h2, 15))

\* C22: sr_str_hash returns the Jenkins one-at-a-time hash of the bytes of
\* its string, bit for bit, also for strings with bytes of value 128..255;
\* of the string "a" it returns the published value 0xca2e9442.
C22_HashIsJenkins ==
    nm.op = "sr_str_hash" =>
        /\ nm.hash = Jenkins(nm.bytes)
        /\ nm.bytes = <<97>> => nm.hash = Word(51758, 37954)

\* The value of four hexadecimal digits.
HexVal(d) == ((d[1] * 16 + d[2]) * 16 + d[3]) * 16 + d[4]

\* C23: the name of a segment is a function of the module, the kind and the
\* path: module and kind suffix, followed for a data-provide or RPC segment
\* by exactly eight hexadecimal digits that spell the 32-bit hash of the
\* path, whatever its value, and by nothing for a configuration or
\* notification segment.
C23_NameFromModuleKindPath ==
    nm.op = "sr_path_sub_shm" =>
        LET h == str_hash(nm.bytes, nm.sgn) IN
        /\ SubSeq(nm.path, 1, 2) = <<nm.mod, nm.suffix1>>
        /\ nm.kind \in {"conf", "notif"} => Len(nm.path) = 2
        /\ nm.kind \in {"dp", "rpc"} =>
              /\ Len(nm.path) = 10
              /\ \A k \in 3..10 : nm.path[k] \in 0..15
              /\ HexVal(SubSeq(nm.path, 3, 6)) = h.hi
              /\ HexVal(SubSeq(nm.path, 7, 10)) = h.lo

\* A data-provide segment was named for a path whose hash has the top bit
\* set.
C23_TopBitHash ==
    /\ nm.op = "sr_path_sub_shm" /\ nm.kind = "dp"
    /\ nm.suffix2.hi >= 32768
    /\ Len(nm.path) = 10

\* C24: a change is delivered to the subscribers of a group in ascending
\* order of priority, subscribers of equal priority in the order in which
\* they subscribed; when the callback of one fails, ABORT goes to the
\* subscribers that were sent CHANGE, the failed one included, last first,
\* and the others are sent neither.  So with priorities {10, 5, 20}: CHANGE
\* to 5, 10, 20; if 10 fails, ABORT to 10, 5 and nothing to 20.
C24_CommitOrder ==
    ev.op = "change" =>
        LET want == ByPriority(ev.ins, {})
        IN  /\ ev.change = (IF ev.failed = 0 THEN want ELSE SubSeq(want, 1, ev.failed))
            /\ ev.abort = (IF ev.failed = 0 THEN <<>> ELSE Reverse(ev.change))
            /\ ev.failed = 0 => Len(ev.change) = Len(ev.ins)

\* The order of delivery among subscribers whose priorities all differ.
DistinctPrioritiesOrdered ==
    (ev.op = "change"
       /\ \A i, j \in 1..Len(ev.ins) : i # j => ev.ins[i].priority # ev.ins[j].priority)
    => C24_CommitOrder

\* The groups of an array that a loop up to count cnt visits, in order.
Visible(arr, cnt) == [k \in 1..Cardinality(Idx(arr, cnt)) |-> arr[k]]

\* Registry T is registry S with one more configuration subscription, that
\* of a call with arguments a: an entry more in the group of (a.mod_name,
\* a.ds) if there is one, else a new group of one entry; the entry has the
\* fields of the call, event id 0 and event NONE.
ConfAdded(S, T, a) ==
    LET old  == Visible(S.conf_subs, S.conf_sub_count)
        new  == Visible(T.conf_subs, T.conf_sub_count)
        hits == {k \in DOMAIN old :
                    old[k].module_name = a.mod_name /\ old[k].ds = a.ds}
        e    == [xpath |-> a.xpath, priority |-> a.priority, opts |-> 0, cb |-> a.cb,
                 private_data |-> "pd", event_id |-> 0, event |-> "SR_SUB_EV_NONE",
                 xfreed |-> FALSE]
    IN  /\ IF hits # {}
           THEN /\ T.conf_sub_count = S.conf_sub_count
                /\ \E k \in hits : new = [old EXCEPT ![k].subs = Append(@, e)]
           ELSE /\ T.conf_sub_count = S.conf_sub_count + 1
                /\ Len(new) = Len(old) + 1
                /\ SubSeq(new, 1, Len(old)) = old
                /\ new[Len(new)].module_name = a.mod_name
                /\ new[Len(new)].ds = a.ds
                /\ new[Len(new)].subs = <<e>>
        /\ T.dp_subs = S.dp_subs /\ T.dp_sub_count = S.dp_sub_count
        /\ T.rpc_subs = S.rpc_subs /\ T.rpc_sub_count = S.rpc_sub_count
        /\ T.notif_subs = S.notif_subs /\ T.notif_sub_count = S.notif_sub_count

\* C25: a call of sr_sub_conf_add that returns success has added exactly
\* one entry: to the group of its (module, datastore) if the registry had
\* one, the group count unchanged, else as the only entry of one new group;
\* every other group and entry is as before; the new entry has the path,
\* priority, options, callback and private data of the call, event id 0 and
\* event NONE.
C25_ConfAddPostcondition ==
    [][(pc = "sr_sub_conf_add" /\ pc' = "idle" /\ ret' = "SR_ERR_OK"
          /\ proc' = "running")
       => \E a \in ConfArgs(ConfSubs) : ConfAdded(subs, subs', a)]_vars

\* A successful add has put a second entry, of path /m1:a and priority 5,
\* into the group that held the entry of the whole module with priority 0.
C25_SecondEntryAdded ==
    /\ pc = "idle" /\ ret = "SR_ERR_OK" /\ proc = "running"
    /\ subs.conf_sub_count = 1 /\ Len(subs.conf_subs) = 1
    /\ Len(subs.conf_subs[1].subs) = 2
    /\ subs.conf_subs[1].subs[1].xpath = NULL
    /\ subs.conf_subs[1].subs[1].priority = 0
    /\ subs.conf_subs[1].subs[2].xpath = "/m1:a"
    /\ subs.conf_subs[1].subs[2].priority = 5

\* Every group that registry S counts has an entry.
CountedGroupsHaveEntries(S) ==
    /\ \A k \in Idx(S.conf_subs, S.conf_sub_count) : Len(S.conf_subs[k].subs) > 0
    /\ \A k \in Idx(S.dp_subs, S.dp_sub_count) : Len(S.dp_subs[k].subs) > 0
    /\ \A k \in Idx(S.notif_subs, S.notif_sub_count) : Len(S.notif_subs[k].subs) > 0

\* C26: after every add or delete that has returned, with success or with
\* an error (a failed allocation inside an add included), every group the
\* registry counts has at least one entry.
C26_NoEmptyGroupVisible ==
    (pc = "idle" /\ proc = "running" /\ cur.op # "sr_subs_del_all")
    => CountedGroupsHaveEntries(subs)

\* Within each kind, no two groups that registry S counts have the same key:
\* (module, datastore) for configuration groups, the module for data-provide
\* and notification groups.
UniqueKeys(S) ==
    /\ \A i, j \in Idx(S.conf_subs, S.conf_sub_count) :
         i # j => <<S.conf_subs[i].module_name, S.conf_subs[i].ds>>
                    # <<S.conf_subs[j].module_name, S.conf_subs[j].ds>>
    /\ \A i, j \in Idx(S.dp_subs, S.dp_sub_count) :
         i # j => S.dp_subs[i].module_name # S.dp_subs[j].module_name
    /\ \A i, j \in Idx(S.notif_subs, S.notif_sub_count) :
         i # j => S.notif_subs[i].module_name # S.notif_subs[j].module_name

AddOps == {"sr_sub_conf_add", "sr_sub_dp_add", "sr_sub_rpc_add", "sr_sub_notif_add"}

\* C27: over every sequence of successful adds and deletes, no two groups
\* of one kind share a key.  The registry starts well-formed and without
\* groups, and every add or delete that succeeds on a well-formed registry
\* with unique keys leaves a well-formed registry with unique keys, also
\* when the delete moves the last group into the slot of the removed one.
C27_GroupKeysUnique ==
    [][(/\ pc \in AddOps \cup DelOps
        /\ pc' \in {"idle", "holding"} /\ proc' = "running"
        /\ pc \in AddOps => ret' = "SR_ERR_OK"
        /\ WellFormed(subs) /\ UniqueKeys(subs))
       => (WellFormed(subs') /\ UniqueKeys(subs'))]_vars

\* A delete has returned and left one of two configuration groups, both of
\* which had been created (their files exist).
C27_GroupRemoved ==
    /\ pc = "idle" /\ ret = "void" /\ proc = "running"
    /\ WellFormed(subs)
    /\ subs.conf_sub_count = 1
    /\ subs.conf_subs[1].module_name = "m2"
    /\ {<<"m1", "running">>, <<"m2", "running">>} \subseteq files

\* C28: no wake-up is lost.  A read release that brings the reader counter
\* to zero broadcasts the condition with the mutex held, so whenever a
\* writer is blocked on the condition and no wake-up is pending for it,
\* there are readers; and a writer that has the mutex back before its
\* timeout and finds no reader takes the write lock.
C28_NoLostWakeup ==
    [][\A t \in Threads :
          /\ (thr'[t].pc = "cond_wait" /\ ~thr'[t].sig) => rwlock'.readers > 0
          /\ (thr[t].pc \in {"unl_locked", "unl_store"} /\ thr'[t].pc = "idle"
                 /\ rwlock'.readers = 0)
               => rwlock.mutex = t
          /\ (thr[t].pc = "locked" /\ thr[t].wr /\ thr[t].ret = "0"
                 /\ rwlock.readers = 0 /\ thr'[t] # thr[t])
               => thr'[t].pc = "write"]_vars

\* A writer is blocked on the condition with no wake-up pending while the
\* reader counter is 0.
WriterWaitsForNothing ==
    \E t \in Threads : thr[t].pc = "cond_wait" /\ ~thr[t].sig /\ rwlock.readers = 0

\* The schedule under which a call of sr_rwlock by thread t makes progress:
\* the thread runs whenever it can, and it gets the mutex if the mutex is
\* free again and again; the deadline of its wait, computed once at line
\* 1747, passes, so that it is not woken by broadcasts for ever.  Nothing is
\* assumed of the other threads.
WriterRuns(t) ==
    /\ WF_vars(rwlock_locked(t) /\ UNCHANGED <<regvars, seg, nm, ev, clk>>)
    /\ WF_vars(rwlock_wait(t) /\ UNCHANGED <<regvars, seg, nm, ev, clk>>)
    /\ SF_vars(rwlock_wake(t) /\ thr'[t].ret = "ETIMEDOUT"
                 /\ UNCHANGED <<regvars, seg, nm, ev, clk>>)

SpecRWFair == SpecRW /\ \A t \in Threads : WriterRuns(t)

\* Thread t is inside a call of sr_rwlock in write mode.
WriteAcquiring(t) == thr[t].wr /\ thr[t].pc \in {"locked", "to_wait", "cond_wait"}

\* C29: every write acquisition terminates: a thread inside sr_rwlock in
\* write mode eventually holds the write lock or has returned an error,
\* whatever the other threads do.
C29_WriteAcquireTerminates ==
    \A t \in Threads : WriteAcquiring(t) ~> (thr[t].pc \in {"write", "idle"})

\* Every thread that holds the lock or the mutex goes on to release it.
HoldersRelease ==
    \A t \in Threads :
        /\ WF_vars(sr_rwunlock /\ thr'[t] # thr[t])
        /\ WF_vars(rwlock_locked(t) /\ UNCHANGED <<regvars, seg, nm, ev, clk>>)

\* No release of a write lock has met a failed assertion.
NoAbort == \A t \in Threads : thr[t].pc # "abort"

\* Write acquisitions terminate when the threads that hold the lock release
\* it and no thread has stopped inside an assertion with the mutex locked.
WriteAcquireTerminatesIfReleased ==
    HoldersRelease => \A t \in Threads : WriteAcquiring(t) ~> (thr[t].pc \in {"write", "idle"} \/ ~NoAbort)

\* The threads that have acquired the lock in read mode and not released it.
ReadHolders == {t \in Threads : ReadHeld(t)}

\* C30: under every interleaving of paired calls the reader counter is the
\* number of threads that hold the lock in read mode, and is never negative.
C30_ReadersCountsHolders ==
    /\ rwlock.readers = Cardinality(ReadHolders)
    /\ rwlock.readers >= 0

\* C31: a read release writes the reader counter and unlocks the mutex only
\* while the releasing thread holds the mutex: a step of a thread inside the
\* read path of sr_rwunlock that does not own the mutex leaves the counter
\* and the mutex as they are.
C31_ReleaseOnlyWithMutex ==
    [][\A t \in Threads :
          (/\ thr[t].pc \in {"unl_locked", "unl_nolock", "unl_store"}
           /\ thr'[t] # thr[t]
           /\ rwlock.mutex # t)
          => rwlock' = rwlock]_vars

\* C32: an add operation called while another thread keeps the handle lock
\* returns the lock error and nothing else happens: the body is not entered,
\* the registry and the segment files are as before, and the lock is still
\* the other thread's.
C32_AddLockTimeout ==
    [][(/\ pc = "idle" /\ proc = "running" /\ subs_lock = "other"
        /\ proc' = "running" /\ subs_lock' # "free"
        /\ cur'.op # "sr_subs_del_all" /\ ret' # "void")
       => (/\ pc' = "idle" /\ ret' = "SR_ERR_TIME_OUT"
           /\ subs' = subs /\ files' = files /\ dir' = dir
           /\ subs_lock' = "other")]_vars

\* An add has timed out on the lock of a handle that has a subscription.
C32_AddTimedOut ==
    /\ pc = "idle" /\ ret = "SR_ERR_TIME_OUT" /\ subs_lock = "other"
    /\ Entries > 0

\* C33: a delete never returns as if done while the subscription is still
\* registered.  A delete returns "void", its only result; when it is called
\* on a handle with subscriptions while another thread keeps the handle
\* lock, an entry has left the registry when it returns.
C33_DelRemovesOrReports ==
    [][(/\ pc = "idle" /\ proc = "running" /\ subs_lock = "other"
        /\ Entries > 0
        /\ pc' = "idle" /\ proc' = "running" /\ subs_lock' = "other"
        /\ cur'.op # "sr_subs_del_all"
        /\ ret # "void" /\ ret' = "void")
       => Entries' < Entries]_vars

\* C34: an add or delete that took the handle lock has released it when it
\* returns: the operating thread, back outside every call and not a caller
\* that took the lock itself, does not own subs->subs_lock.
C34_LockReleasedOnReturn ==
    (pc = "idle" /\ proc = "running") => subs_lock # "self"

\* The group array and the group count of the kind that add function op
\* works on, in registry S.
KindGroups(S, op) ==
    IF op = "sr_sub_conf_add" THEN S.conf_subs
    ELSE IF op = "sr_sub_dp_add" THEN S.dp_subs ELSE S.notif_subs

KindCount(S, op) ==
    IF op = "sr_sub_conf_add" THEN S.conf_sub_count
    ELSE IF op = "sr_sub_dp_add" THEN S.dp_sub_count ELSE S.notif_sub_count

\* C35: an add that fails after it found its group in the registry (no group
\* array and no module name were allocated by the call) returns with that
\* group as the call found it, entries, entry array and segment, and with
\* the group count of the kind unchanged.
C35_FailedAddKeepsGroup ==
    [][(/\ pc = "error_unlock" /\ proc = "running"
        /\ cur.op \in {"sr_sub_conf_add", "sr_sub_dp_add", "sr_sub_notif_add"}
        /\ cur.grp # 0 /\ ~cur.mem[1] /\ ~cur.mem[2]
        /\ pc' = "idle" /\ proc' = "running")
       => (/\ KindGroups(subs', cur.op)[cur.grp] = KindGroups(cur.pre, cur.op)[cur.grp]
           /\ KindCount(subs', cur.op) = KindCount(cur.pre, cur.op))]_vars

\* C36: in sr_subs_del_all every unlink of a segment file comes directly
\* after a directory call that unregistered a subscription of that segment,
\* and before the segment is closed and unmapped; after a directory call
\* that failed nothing more is done.
C36_DelAllOrder ==
    cur.op = "sr_subs_del_all"
    => \A k \in 1..Len(cur.log) :
          /\ cur.log[k][1] = "unlink"
             => /\ k > 1
                /\ cur.log[k - 1] \in {<<"shmmod", cur.log[k][2]>>,
                                       <<"shmmod_last", cur.log[k][2]>>}
                /\ k < Len(cur.log) => cur.log[k + 1] = <<"free", cur.log[k][2]>>
          /\ cur.log[k][1] = "shmmod_failed" => k = Len(cur.log)

\* The same for calls on a registry that is well-formed and has no group
\* without entries.
DelAllOrderOnSoundRegistry ==
    (WellFormed(cur.pre) /\ NoEmptyGroup(cur.pre)) => C36_DelAllOrder

\* C37: sr_sub_notif_del called with has_subs_lock set neither takes nor
\* releases the handle lock: its caller holds the lock when the call starts
\* and when it has returned.  Called with has_subs_lock clear it takes the
\* lock at its start and has released it when it has returned.
C37_NotifDelLockFrame ==
    [][/\ (pc # "sr_sub_notif_del" /\ pc' = "sr_sub_notif_del")
          => IF cur'.has_subs_lock
             THEN pc = "holding" /\ subs_lock = "self" /\ subs_lock' = "self"
             ELSE pc = "idle" /\ subs_lock = "free" /\ subs_lock' = "self"
       /\ (pc = "sr_sub_notif_del" /\ pc' # "sr_sub_notif_del")
          => IF cur.has_subs_lock
             THEN pc' = "holding" /\ subs_lock = "self" /\ subs_lock' = "self"
             ELSE pc' = "idle" /\ subs_lock = "self" /\ subs_lock' = "free"]_vars

\* A call with has_subs_lock set has removed the last notification group and
\* returned to the caller that holds the lock.
C37_LockedDelRemovedGroup ==
    /\ pc = "holding" /\ ret = "void" /\ subs_lock = "self"
    /\ subs.notif_sub_count = 0
    /\ \E n \in files : n[2] = "notif"

\* C38: whenever sr_shm_remap has returned success, the segment is mapped
\* over its recorded size: a recorded size that is not 0 comes with a
\* mapping, also when the call is the retry of one that failed.
C38_SuccessMeansMapped ==
    (seg.call.op = "sr_shm_remap" /\ seg.call.err = "SR_ERR_OK" /\ seg.shm.size # 0)
    => seg.shm.addr # NULL

\* The time `now + add_ms milliseconds` as a normalized timespec, with the
\* sum of the milliseconds taken in the integers.
TimeAfter(now, add_ms) ==
    LET m == WMod1000(add_ms) + (now.tv_nsec \div 1000000)
    IN  [tv_sec  |-> now.tv_sec + WDiv1000(add_ms) + m \div 1000,
         tv_nsec |-> ((m % 1000) * 1000000) + (now.tv_nsec % 1000000)]

\* C39: sr_time_get returns the time now + add_ms milliseconds, normalized:
\* tv_nsec is in 0 .. 10^9 - 1 and seconds and nanoseconds are those of the
\* exact sum, for every add_ms of 32 bits.
C39_TimeGetAddsExactly ==
    clk.op = "sr_time_get"
    => /\ clk.ts.tv_nsec \in 0..999999999
       /\ clk.ts = TimeAfter(clk.now, clk.add_ms)

\* sr_time_get is exact whenever the sum of add_ms and the milliseconds of
\* the current time is below 2^32.
TimeGetExactBelowWrap ==
    (clk.op = "sr_time_get" /\ ~(clk.add_ms.hi = 65535 /\ clk.add_ms.lo > 64536))
    => clk.ts = TimeAfter(clk.now, clk.add_ms)

\* C40: sr_msleep retries nanosleep only after an interruption: once
\* nanosleep has failed with an error other than EINTR, the function has
\* stopped and returned that error.
C40_OtherErrorStops ==
    (clk.op = "sr_msleep" /\ clk.fail \notin {"none", "EINTR"})
    => (clk.pc = "idle" /\ clk.err = "SR_ERR_SYS")

====
